---------------------------- MODULE Spec2Model ----------------------------
(***************************************************************************)
(* A model of the shogi application tomoto0/shogi-app: the rules engine    *)
(* (logic/board.ts, logic/moves.ts, logic/legalMoves.ts,                    *)
(* logic/gameRules.ts), the history hook (hooks/useGameHistory.ts) and the  *)
(* game handlers of App.tsx.                                                *)
(*                                                                         *)
(* A board is board[rowIndex][colIndex] with both indices in 0..8, as in    *)
(* the source; a Position is [col, row] with both in 1..9.                  *)
(***************************************************************************)
EXTENDS Integers, Sequences, FiniteSets, TLC

(***************************************************************************)
(* Types (types/index.ts)                                                   *)
(***************************************************************************)
Players == {"sente", "gote"}

HandPieceTypes == <<"rook", "bishop", "gold", "silver", "knight", "lance", "pawn">>

\* An empty square (null in the source).
Null == [type |-> "null", owner |-> "null", isPromoted |-> FALSE]

\* The absent `captured` field of a MoveAction.
Undefined == "undefined"

Pos(c, r) == [col |-> c, row |-> r]

Opponent(player) == IF player = "sente" THEN "gote" ELSE "sente"

(***************************************************************************)
(* logic/board.ts                                                           *)
(***************************************************************************)
createEmptyHand ==
  [rook |-> 0, bishop |-> 0, gold |-> 0, silver |-> 0, knight |-> 0,
   lance |-> 0, pawn |-> 0]

createPiece(type, owner) == [type |-> type, owner |-> owner, isPromoted |-> FALSE]

BackRank == <<"lance", "knight", "silver", "gold", "king", "gold", "silver",
              "knight", "lance">>

createInitialBoard ==
  [row \in 0..8 |-> [col \in 0..8 |->
     CASE row = 0 -> createPiece(BackRank[col + 1], "gote")
       [] row = 1 /\ col = 1 -> createPiece("rook", "gote")
       [] row = 1 /\ col = 7 -> createPiece("bishop", "gote")
       [] row = 2 -> createPiece("pawn", "gote")
       [] row = 6 -> createPiece("pawn", "sente")
       [] row = 7 /\ col = 1 -> createPiece("bishop", "sente")
       [] row = 7 /\ col = 7 -> createPiece("rook", "sente")
       [] row = 8 -> createPiece(BackRank[col + 1], "sente")
       [] OTHER -> Null]]

positionToIndex(pos) == [rowIndex |-> pos.row - 1, colIndex |-> 9 - pos.col]

indexToPosition(rowIndex, colIndex) == Pos(9 - colIndex, rowIndex + 1)

getPieceAt(board, pos) == board[pos.row - 1][9 - pos.col]

isValidPosition(col, row) == col >= 1 /\ col <= 9 /\ row >= 1 /\ row <= 9

\* A hand that a captured piece never reaches.
addToHandLost(hand, pieceType) == hand

addToHand(hand, pieceType) == [hand EXCEPT ![pieceType] = @ + 1]

\* The source throws when the count is not positive; callers of the model
\* guard the call with RemoveFromHandThrows.
RemoveFromHandThrows(hand, pieceType) == hand[pieceType] <= 0

removeFromHand(hand, pieceType) == [hand EXCEPT ![pieceType] = @ - 1]

PROMOTION_MAP ==
  [rook |-> "promotedRook", bishop |-> "promotedBishop",
   silver |-> "promotedSilver", knight |-> "promotedKnight",
   lance |-> "promotedLance", pawn |-> "promotedPawn"]

UNPROMOTE_MAP ==
  [promotedRook |-> "rook", promotedBishop |-> "bishop",
   promotedSilver |-> "silver", promotedKnight |-> "knight",
   promotedLance |-> "lance", promotedPawn |-> "pawn"]

canPromote(pieceType) == pieceType \in DOMAIN PROMOTION_MAP

promotePiece(pieceType) == PROMOTION_MAP[pieceType]

isPromotedPiece(pieceType) == pieceType \in DOMAIN UNPROMOTE_MAP

unpromotePiece(pieceType) ==
  IF isPromotedPiece(pieceType) THEN UNPROMOTE_MAP[pieceType] ELSE pieceType

\* The source throws 'King cannot be captured' for a king.
ToHandPieceTypeThrows(pieceType) == unpromotePiece(pieceType) = "king"

toHandPieceType(pieceType) == unpromotePiece(pieceType)

(***************************************************************************)
(* logic/moves.ts                                                           *)
(***************************************************************************)
\* The entries of the DIRECTIONS object, one definition per key.
DIRECTIONS_UP == [col |-> 0, row |-> -1]

DIRECTIONS_DOWN == [col |-> 0, row |-> 1]

DIRECTIONS_LEFT == [col |-> -1, row |-> 0]

DIRECTIONS_RIGHT == [col |-> 1, row |-> 0]

DIRECTIONS_UP_LEFT == [col |-> -1, row |-> -1]

DIRECTIONS_UP_RIGHT == [col |-> 1, row |-> -1]

DIRECTIONS_DOWN_LEFT == [col |-> -1, row |-> 1]

DIRECTIONS_DOWN_RIGHT == [col |-> 1, row |-> 1]

DIRECTIONS_KNIGHT_LEFT == [col |-> -1, row |-> -2]

DIRECTIONS_KNIGHT_RIGHT == [col |-> 1, row |-> -2]

Step(d) == [direction |-> d, type |-> "step"]
Slide(d) == [direction |-> d, type |-> "slide"]

KING_MOVES ==
  <<Step(DIRECTIONS_UP), Step(DIRECTIONS_DOWN), Step(DIRECTIONS_LEFT),
    Step(DIRECTIONS_RIGHT), Step(DIRECTIONS_UP_LEFT), Step(DIRECTIONS_UP_RIGHT),
    Step(DIRECTIONS_DOWN_LEFT), Step(DIRECTIONS_DOWN_RIGHT)>>

\* A rook that steps one square instead of sliding.
ROOK_MOVES_Step ==
  <<Step(DIRECTIONS_UP), Step(DIRECTIONS_DOWN), Step(DIRECTIONS_LEFT),
    Step(DIRECTIONS_RIGHT)>>

ROOK_MOVES ==
  <<Slide(DIRECTIONS_UP), Slide(DIRECTIONS_DOWN), Slide(DIRECTIONS_LEFT),
    Slide(DIRECTIONS_RIGHT)>>

PROMOTED_ROOK_MOVES ==
  ROOK_MOVES \o
  <<Step(DIRECTIONS_UP_LEFT), Step(DIRECTIONS_UP_RIGHT),
    Step(DIRECTIONS_DOWN_LEFT), Step(DIRECTIONS_DOWN_RIGHT)>>

BISHOP_MOVES ==
  <<Slide(DIRECTIONS_UP_LEFT), Slide(DIRECTIONS_UP_RIGHT),
    Slide(DIRECTIONS_DOWN_LEFT), Slide(DIRECTIONS_DOWN_RIGHT)>>

PROMOTED_BISHOP_MOVES ==
  BISHOP_MOVES \o
  <<Step(DIRECTIONS_UP), Step(DIRECTIONS_DOWN), Step(DIRECTIONS_LEFT),
    Step(DIRECTIONS_RIGHT)>>

GOLD_MOVES ==
  <<Step(DIRECTIONS_UP), Step(DIRECTIONS_UP_LEFT), Step(DIRECTIONS_UP_RIGHT),
    Step(DIRECTIONS_LEFT), Step(DIRECTIONS_RIGHT), Step(DIRECTIONS_DOWN)>>

SILVER_MOVES ==
  <<Step(DIRECTIONS_UP), Step(DIRECTIONS_UP_LEFT), Step(DIRECTIONS_UP_RIGHT),
    Step(DIRECTIONS_DOWN_LEFT), Step(DIRECTIONS_DOWN_RIGHT)>>

KNIGHT_MOVES == <<Step(DIRECTIONS_KNIGHT_LEFT), Step(DIRECTIONS_KNIGHT_RIGHT)>>

LANCE_MOVES == <<Slide(DIRECTIONS_UP)>>

PAWN_MOVES == <<Step(DIRECTIONS_UP)>>

PIECE_MOVES ==
  [king |-> KING_MOVES, rook |-> ROOK_MOVES, bishop |-> BISHOP_MOVES,
   gold |-> GOLD_MOVES, silver |-> SILVER_MOVES, knight |-> KNIGHT_MOVES,
   lance |-> LANCE_MOVES, pawn |-> PAWN_MOVES,
   promotedRook |-> PROMOTED_ROOK_MOVES,
   promotedBishop |-> PROMOTED_BISHOP_MOVES,
   promotedSilver |-> GOLD_MOVES, promotedKnight |-> GOLD_MOVES,
   promotedLance |-> GOLD_MOVES, promotedPawn |-> GOLD_MOVES]

\* A direction that is left as it is for either owner.
adjustDirectionForNeither(direction, owner) == direction

adjustDirectionForPlayer(direction, owner) ==
  IF owner = "gote"
    THEN [col |-> -direction.col, row |-> -direction.row]
    ELSE direction

\* The one square of a step pattern, when it is on the board and does not
\* hold the owner's own piece.
StepMoves(board, from, dir, owner) ==
  LET newCol == from.col + dir.col
      newRow == from.row + dir.row
  IN IF isValidPosition(newCol, newRow)
       THEN LET targetPiece == getPieceAt(board, Pos(newCol, newRow))
            IN IF targetPiece = Null \/ targetPiece.owner # owner
                 THEN <<Pos(newCol, newRow)>>
                 ELSE <<>>
       ELSE <<>>

\* The while loop of a slide pattern, from (currentCol, currentRow) on.
RECURSIVE SlideMoves(_, _, _, _, _)
SlideMoves(board, currentCol, currentRow, dir, owner) ==
  IF ~isValidPosition(currentCol, currentRow)
    THEN <<>>
    ELSE LET targetPiece == getPieceAt(board, Pos(currentCol, currentRow))
         IN IF targetPiece = Null
              THEN <<Pos(currentCol, currentRow)>> \o
                   SlideMoves(board, currentCol + dir.col, currentRow + dir.row,
                              dir, owner)
              ELSE IF targetPiece.owner # owner
                     THEN <<Pos(currentCol, currentRow)>>
                     ELSE <<>>

PatternMoves(board, from, pattern, owner) ==
  LET adjustedDir == adjustDirectionForPlayer(pattern.direction, owner)
  IN IF pattern.type = "step"
       THEN StepMoves(board, from, adjustedDir, owner)
       ELSE SlideMoves(board, from.col + adjustedDir.col,
                       from.row + adjustedDir.row, adjustedDir, owner)

\* f[lo] \o f[lo+1] \o ... \o f[hi]: a for loop that pushes onto a list.
RECURSIVE Flatten(_, _, _)
Flatten(f, lo, hi) ==
  IF lo > hi THEN <<>>
  ELSE IF lo = hi THEN f[lo]
  ELSE Flatten(f, lo, (lo + hi) \div 2)
       \o Flatten(f, (lo + hi) \div 2 + 1, hi)

Range(s) == {s[i] : i \in DOMAIN s}

getRawMoves(board, from, pieceType, owner) ==
  LET patterns == PIECE_MOVES[pieceType]
  IN Flatten([i \in DOMAIN patterns |->
                PatternMoves(board, from, patterns[i], owner)],
             1, Len(patterns))

isDeadPosition(pieceType, to, owner) ==
  IF owner = "sente"
    THEN IF pieceType = "pawn" \/ pieceType = "lance" THEN to.row = 1
         ELSE IF pieceType = "knight" THEN to.row <= 2
         ELSE FALSE
    ELSE IF pieceType = "pawn" \/ pieceType = "lance" THEN to.row = 9
         ELSE IF pieceType = "knight" THEN to.row >= 8
         ELSE FALSE

\* A promotion test that looks at the destination only.
canPromoteMoveEntering(from, to, owner) ==
  IF owner = "sente" THEN to.row <= 3 ELSE to.row >= 7

canPromoteMove(from, to, owner) ==
  IF owner = "sente"
    THEN from.row <= 3 \/ to.row <= 3
    ELSE from.row >= 7 \/ to.row >= 7

\* A forced-promotion test that never forces.
mustPromoteNever(pieceType, to, owner) == FALSE

mustPromote(pieceType, to, owner) == isDeadPosition(pieceType, to, owner)

(***************************************************************************)
(* logic/legalMoves.ts                                                      *)
(***************************************************************************)
Indices == 0..80

RowOf(i) == i \div 9

ColOf(i) == i % 9

\* The result of findKingPosition when the player has no king on the board.
NoPosition == [col |-> 0, row |-> 0]

findKingPosition(board, player) ==
  LET found == {i \in Indices :
                  /\ board[RowOf(i)][ColOf(i)].type = "king"
                  /\ board[RowOf(i)][ColOf(i)].owner = player}
  IN IF found = {}
       THEN NoPosition
       ELSE LET first == CHOOSE i \in found : \A j \in found : i <= j
            IN indexToPosition(RowOf(first), ColOf(first))

isSquareAttacked(board, targetPos, byPlayer) ==
  \E row \in 0..8, col \in 0..8 :
    LET piece == board[row][col]
    IN /\ piece # Null
       /\ piece.owner = byPlayer
       /\ targetPos \in Range(getRawMoves(board, indexToPosition(row, col),
                                          piece.type, byPlayer))

isInCheck(board, player) ==
  LET kingPos == findKingPosition(board, player)
  IN IF kingPos = NoPosition
       THEN FALSE
       ELSE isSquareAttacked(board, kingPos, Opponent(player))

MoveAction(from, to, piece, captured, promote) ==
  [type |-> "move", from |-> from, to |-> to, piece |-> piece,
   captured |-> captured, promote |-> promote]

DropAction(to, piece) == [type |-> "drop", to |-> to, piece |-> piece]

applyMove(board, move) ==
  LET fromRow == positionToIndex(move.from).rowIndex
      fromCol == positionToIndex(move.from).colIndex
      toRow == positionToIndex(move.to).rowIndex
      toCol == positionToIndex(move.to).colIndex
      movingPiece == board[fromRow][fromCol]
      captured == board[toRow][toCol]
      cleared == [board EXCEPT ![fromRow][fromCol] = Null]
      placed ==
        IF move.promote /\ canPromote(movingPiece.type)
           /\ ~isPromotedPiece(movingPiece.type)
          THEN [movingPiece EXCEPT !.type = promotePiece(movingPiece.type),
                                   !.isPromoted = TRUE]
          ELSE movingPiece
  IN [newBoard |-> IF movingPiece # Null
                     THEN [cleared EXCEPT ![toRow][toCol] = placed]
                     ELSE cleared,
      captured |-> captured]

applyDrop(board, drop, player) ==
  [board EXCEPT ![positionToIndex(drop.to).rowIndex]
                 [positionToIndex(drop.to).colIndex] =
     [type |-> drop.piece, owner |-> player, isPromoted |-> FALSE]]

\* A filter that keeps every raw move.
isLegalMoveUnfiltered(board, move, player) == TRUE

isLegalMove(board, move, player) ==
  ~isInCheck(applyMove(board, move).newBoard, player)

\* A nifu test that finds no pawn.
HasNoPawnOnFile(board, to, player) == FALSE

\* The nifu loop: an unpromoted pawn of the player on the file of `to`.
HasOwnPawnOnFile(board, to, player) ==
  \E row \in 0..8 :
    LET piece == board[row][positionToIndex(to).colIndex]
    IN /\ piece # Null
       /\ piece.type = "pawn"
       /\ piece.owner = player
       /\ ~piece.isPromoted

\* The `hand` argument of isCheckmate when it is left out.
NoHand == [absent |-> TRUE]

\* The board half of isCheckmate: some relocation, promoted or not, after
\* which the player is not in check.
HasBoardEscape(board, player) ==
  \E row \in 0..8, col \in 0..8 :
    LET piece == board[row][col]
        from == indexToPosition(row, col)
    IN /\ piece # Null
       /\ piece.owner = player
       /\ \E to \in Range(getRawMoves(board, from, piece.type, player)) :
            \/ isLegalMove(board,
                 MoveAction(from, to, piece.type, Undefined, FALSE), player)
            \/ /\ canPromote(piece.type)
               /\ ~isPromotedPiece(piece.type)
               /\ isLegalMove(board,
                    MoveAction(from, to, piece.type, Undefined, TRUE), player)

isLegalDropForCheckEscape(board, drop, player, hand) ==
  IF hand[drop.piece] <= 0 THEN FALSE
  ELSE IF getPieceAt(board, drop.to) # Null THEN FALSE
  ELSE IF isDeadPosition(drop.piece, drop.to, player) THEN FALSE
  ELSE IF drop.piece = "pawn" /\ HasOwnPawnOnFile(board, drop.to, player)
    THEN FALSE
  ELSE ~isInCheck(applyDrop(board, drop, player), player)

\* The hand half of isCheckmate.
HasDropEscape(board, player, hand) ==
  \E k \in DOMAIN HandPieceTypes :
    /\ hand[HandPieceTypes[k]] > 0
    /\ \E row \in 1..9, col \in 1..9 :
         isLegalDropForCheckEscape(board,
           DropAction(Pos(col, row), HandPieceTypes[k]), player, hand)

\* A mate test that never reports mate.
isCheckmateNever(board, player, hand) == FALSE

\* A mate test that reports every check as mate.
isCheckmateOnCheck(board, player, hand) == isInCheck(board, player)

isCheckmate(board, player, hand) ==
  IF ~isInCheck(board, player) THEN FALSE
  ELSE IF HasBoardEscape(board, player) THEN FALSE
  ELSE IF hand # NoHand /\ HasDropEscape(board, player, hand) THEN FALSE
  ELSE TRUE

isLegalDrop(board, drop, player, hand) ==
  IF hand[drop.piece] <= 0 THEN FALSE
  ELSE IF getPieceAt(board, drop.to) # Null THEN FALSE
  ELSE IF isDeadPosition(drop.piece, drop.to, player) THEN FALSE
  ELSE IF drop.piece = "pawn" /\ HasOwnPawnOnFile(board, drop.to, player)
    THEN FALSE
  ELSE IF /\ drop.piece = "pawn"
          /\ isCheckmate(applyDrop(board, drop, player), Opponent(player),
                         NoHand)
    THEN FALSE
  ELSE ~isInCheck(applyDrop(board, drop, player), player)

\* The body of the loop over rawMoves in getLegalMovesForPiece.
MovesToSquare(board, from, to, piece, player) ==
  LET targetPiece == getPieceAt(board, to)
      captured == IF targetPiece = Null THEN Undefined ELSE targetPiece.type
      canProm == /\ canPromote(piece.type)
                 /\ ~isPromotedPiece(piece.type)
                 /\ canPromoteMove(from, to, player)
      mustProm == mustPromote(piece.type, to, player)
      promoteMove == MoveAction(from, to, piece.type, captured, TRUE)
      noPromoteMove == MoveAction(from, to, piece.type, captured, FALSE)
  IN IF canProm
       THEN (IF isLegalMove(board, promoteMove, player)
               THEN <<promoteMove>> ELSE <<>>) \o
            (IF ~mustProm /\ isLegalMove(board, noPromoteMove, player)
               THEN <<noPromoteMove>> ELSE <<>>)
       ELSE IF isLegalMove(board, noPromoteMove, player)
              THEN <<noPromoteMove>> ELSE <<>>

getLegalMovesForPiece(board, from, player) ==
  LET piece == getPieceAt(board, from)
  IN IF piece = Null \/ piece.owner # player
       THEN <<>>
       ELSE LET rawMoves == getRawMoves(board, from, piece.type, player)
            IN Flatten([i \in DOMAIN rawMoves |->
                          MovesToSquare(board, from, rawMoves[i], piece, player)],
                       1, Len(rawMoves))

\* The drops of one piece type: rows 1..9 outside, columns 1..9 inside.
DropsOfType(board, player, hand, pieceType) ==
  IF hand[pieceType] <= 0
    THEN <<>>
    ELSE Flatten([i \in Indices |->
                    LET drop == DropAction(Pos(ColOf(i) + 1, RowOf(i) + 1),
                                           pieceType)
                    IN IF isLegalDrop(board, drop, player, hand)
                         THEN <<drop>> ELSE <<>>],
                 0, 80)

getLegalDrops(board, player, hand) ==
  Flatten([k \in DOMAIN HandPieceTypes |->
             DropsOfType(board, player, hand, HandPieceTypes[k])],
          1, Len(HandPieceTypes))

getAllLegalMoves(state) ==
  Flatten([i \in Indices |->
             LET piece == state.board[RowOf(i)][ColOf(i)]
             IN IF piece # Null /\ piece.owner = state.currentPlayer
                  THEN getLegalMovesForPiece(state.board,
                         indexToPosition(RowOf(i), ColOf(i)),
                         state.currentPlayer)
                  ELSE <<>>],
          0, 80)
  \o getLegalDrops(state.board, state.currentPlayer,
                   state.hands[state.currentPlayer])

\* moves.length === 0 for moves = getAllLegalMoves(state), decided without
\* building the list: no piece of the side to move has a legal relocation
\* and no piece type in its hand has a legal drop.
NoLegalMoves(state) ==
  /\ \A i \in Indices :
       LET piece == state.board[RowOf(i)][ColOf(i)]
       IN (piece # Null /\ piece.owner = state.currentPlayer) =>
            getLegalMovesForPiece(state.board,
              indexToPosition(RowOf(i), ColOf(i)), state.currentPlayer) = <<>>
  /\ \A k \in DOMAIN HandPieceTypes, i \in Indices :
       ~isLegalDrop(state.board,
          DropAction(Pos(ColOf(i) + 1, RowOf(i) + 1), HandPieceTypes[k]),
          state.currentPlayer, state.hands[state.currentPlayer])

isStalemate(state) ==
  IF isInCheck(state.board, state.currentPlayer)
    THEN FALSE
    ELSE NoLegalMoves(state)

\* The destinations of a piece's legal moves, duplicates removed: the source
\* returns them as a list that callers only search.
getLegalDestinations(board, from, player) ==
  {m.to : m \in Range(getLegalMovesForPiece(board, from, player))}

(***************************************************************************)
(* logic/gameRules.ts                                                       *)
(***************************************************************************)
pieceMap ==
  [king |-> "K", rook |-> "R", bishop |-> "B", gold |-> "G", silver |-> "S",
   knight |-> "N", lance |-> "L", pawn |-> "P", promotedRook |-> "+R",
   promotedBishop |-> "+B", promotedSilver |-> "+S", promotedKnight |-> "+N",
   promotedLance |-> "+L", promotedPawn |-> "+P"]

\* String.prototype.toLowerCase on the strings of pieceMap and sfenMap.
toLowerCase ==
  ("K" :> "k") @@ ("R" :> "r") @@ ("B" :> "b") @@ ("G" :> "g") @@
  ("S" :> "s") @@ ("N" :> "n") @@ ("L" :> "l") @@ ("P" :> "p") @@
  ("+R" :> "+r") @@ ("+B" :> "+b") @@ ("+S" :> "+s") @@ ("+N" :> "+n") @@
  ("+L" :> "+l") @@ ("+P" :> "+p")

\* An encoding of a piece that leaves the owner out.
pieceToSfenUpper(piece) == pieceMap[piece.type]

pieceToSfen(piece) ==
  IF piece.owner = "sente"
    THEN pieceMap[piece.type]
    ELSE toLowerCase[pieceMap[piece.type]]

\* The inner loop of boardToSfen over one row, from column `col` on, with
\* `emptyCount` empty squares pending; the count left at the end is flushed.
RECURSIVE RowToSfen(_, _, _)
RowToSfen(boardRow, col, emptyCount) ==
  LET flush == IF emptyCount > 0 THEN ToString(emptyCount) ELSE ""
  IN IF col > 8
       THEN flush
       ELSE IF boardRow[col] = Null
              THEN RowToSfen(boardRow, col + 1, emptyCount + 1)
              ELSE flush \o pieceToSfen(boardRow[col]) \o
                   RowToSfen(boardRow, col + 1, 0)

\* rows.join('/')
RECURSIVE JoinRows(_, _)
JoinRows(board, row) ==
  IF row = 8
    THEN RowToSfen(board[row], 0, 0)
    ELSE RowToSfen(board[row], 0, 0) \o "/" \o JoinRows(board, row + 1)

boardToSfen(board) == JoinRows(board, 0)

sfenMap ==
  [rook |-> "R", bishop |-> "B", gold |-> "G", silver |-> "S", knight |-> "N",
   lance |-> "L", pawn |-> "P"]

\* One of the two loops of handsToSfen, from piece k of `pieces` on.
RECURSIVE HandToSfen(_, _, _)
HandToSfen(hand, lower, k) ==
  IF k > Len(HandPieceTypes)
    THEN ""
    ELSE LET piece == HandPieceTypes[k]
             count == hand[piece]
             letter == IF lower THEN toLowerCase[sfenMap[piece]]
                                ELSE sfenMap[piece]
         IN (IF count > 0
               THEN (IF count > 1 THEN ToString(count) ELSE "") \o letter
               ELSE "") \o HandToSfen(hand, lower, k + 1)

handsToSfen(hands) ==
  LET result == HandToSfen(hands.sente, FALSE, 1) \o
                HandToSfen(hands.gote, TRUE, 1)
  IN IF result = "" THEN "-" ELSE result

\* An encoding that also carries the ply count.
gameStateToSfenWithPly(state) ==
  boardToSfen(state.board) \o " " \o
  (IF state.currentPlayer = "sente" THEN "b" ELSE "w") \o " " \o
  handsToSfen(state.hands) \o " " \o ToString(state.moveCount)

gameStateToSfen(state) ==
  boardToSfen(state.board) \o " " \o
  (IF state.currentPlayer = "sente" THEN "b" ELSE "w") \o " " \o
  handsToSfen(state.hands)

countPositionRepetitions(positionHistory, currentPosition) ==
  Cardinality({i \in DOMAIN positionHistory :
                 positionHistory[i] = currentPosition}) + 1

isRepetition(state) ==
  countPositionRepetitions(state.positionHistory, gameStateToSfen(state)) >= 4

NotPerpetual == [isPerpetual |-> FALSE, loser |-> Undefined]

isPerpeturalCheck(state) ==
  LET currentSfen == gameStateToSfen(state)
      opponent == Opponent(state.currentPlayer)
      isOpponentChecking == isInCheck(state.board, state.currentPlayer)
      checkCount == Cardinality({i \in DOMAIN state.positionHistory :
                                   state.positionHistory[i] = currentSfen})
  IN IF ~isOpponentChecking
       THEN NotPerpetual
       ELSE IF checkCount >= 3
              THEN [isPerpetual |-> TRUE, loser |-> opponent]
              ELSE NotPerpetual

\* A GameResult; the field a variant does not have is Undefined.
GameResult(type, winner, result) ==
  [type |-> type, winner |-> winner, result |-> result]

Ongoing == GameResult("ongoing", Undefined, Undefined)

checkGameResult(state) ==
  LET opponent == Opponent(state.currentPlayer)
      perpetualResult == isPerpeturalCheck(state)
  IN IF isCheckmate(state.board, state.currentPlayer, NoHand)
       THEN GameResult("checkmate", opponent, Undefined)
     ELSE IF isStalemate(state)
       THEN GameResult("stalemate", opponent, Undefined)
     ELSE IF perpetualResult.isPerpetual /\ perpetualResult.loser # Undefined
       THEN GameResult("repetition", Undefined,
                       Opponent(perpetualResult.loser))
     ELSE IF isRepetition(state)
       THEN GameResult("repetition", Undefined, "draw")
     ELSE Ongoing

determineGamePhase(moveCount) ==
  IF moveCount < 30 THEN "opening"
  ELSE IF moveCount < 80 THEN "middlegame"
  ELSE "endgame"

createInitialGameState ==
  [board |-> createInitialBoard,
   hands |-> [sente |-> createEmptyHand, gote |-> createEmptyHand],
   currentPlayer |-> "sente",
   moveHistory |-> <<>>,
   positionHistory |-> <<>>,
   moveCount |-> 0,
   gamePhase |-> "opening",
   result |-> Ongoing,
   isCheck |-> FALSE]

\* Whether `move` is an element of getAllLegalMoves(state), decided from the
\* part of the list the move can be in: the moves of the piece on move.from
\* when that piece is the mover's, or the drops.
IsLegalMoveOf(state, move) ==
  IF move.type = "move"
    THEN /\ getPieceAt(state.board, move.from) # Null
         /\ getPieceAt(state.board, move.from).owner = state.currentPlayer
         /\ move \in Range(getLegalMovesForPiece(state.board, move.from,
                                                 state.currentPlayer))
    ELSE isLegalDrop(state.board, move, state.currentPlayer,
                     state.hands[state.currentPlayer])

(***************************************************************************)
(* hooks/useGameHistory.ts                                                  *)
(***************************************************************************)
useGameHistory(initialState) ==
  [past |-> <<>>, present |-> initialState, future |-> <<>>]

setGameState(prev, newState) ==
  [past |-> Append(prev.past, prev.present),
   present |-> newState,
   future |-> <<>>]

\* An undo that drops the snapshot it leaves.
undoForgetting(prev) ==
  IF Len(prev.past) = 0
    THEN prev
    ELSE [past |-> SubSeq(prev.past, 1, Len(prev.past) - 1),
          present |-> prev.past[Len(prev.past)],
          future |-> prev.future]

undo(prev) ==
  IF Len(prev.past) = 0
    THEN prev
    ELSE [past |-> SubSeq(prev.past, 1, Len(prev.past) - 1),
          present |-> prev.past[Len(prev.past)],
          future |-> <<prev.present>> \o prev.future]

undoTwice(prev) ==
  IF Len(prev.past) < 2
    THEN prev
    ELSE [past |-> SubSeq(prev.past, 1, Len(prev.past) - 2),
          present |-> prev.past[Len(prev.past) - 1],
          future |-> <<prev.past[Len(prev.past)], prev.present>> \o
                     prev.future]

redo(prev) ==
  IF Len(prev.future) = 0
    THEN prev
    ELSE [past |-> Append(prev.past, prev.present),
          present |-> Head(prev.future),
          future |-> Tail(prev.future)]

reset(newInitialState) ==
  [past |-> <<>>, present |-> newInitialState, future |-> <<>>]

canUndoTwice(h) == Len(h.past) >= 2

(***************************************************************************)
(* App.tsx: the state updates of the move handlers                          *)
(***************************************************************************)
\* An initial state whose position history is left empty.
createInitialStateUnseeded == createInitialGameState

createInitialState ==
  [createInitialGameState EXCEPT
     !.positionHistory = <<gameStateToSfen(createInitialGameState)>>]

\* toHandPieceType(captured.type) throws inside executeMoveWithPromotion:
\* the handler is left by the exception before any setState call.
ExecuteMoveThrows(gameState, from, to) ==
  /\ getPieceAt(gameState.board, to) # Null
  /\ ToHandPieceTypeThrows(getPieceAt(gameState.board, to).type)

\* The MoveAction executeMoveWithPromotion builds from the board of its
\* closure.
BuildMoveAction(gameState, from, to, promote) ==
  MoveAction(from, to, getPieceAt(gameState.board, from).type,
             IF getPieceAt(gameState.board, to) = Null
               THEN Undefined
               ELSE getPieceAt(gameState.board, to).type,
             promote)

\* The newState executeMoveWithPromotion hands to setGameState.
executeMoveWithPromotion(gameState, from, to, promote) ==
  LET currentPlayer == gameState.currentPlayer
      moveAction == BuildMoveAction(gameState, from, to, promote)
      applied == applyMove(gameState.board, moveAction)
      newHands == IF applied.captured # Null
                    THEN [gameState.hands EXCEPT
                            ![currentPlayer] =
                              addToHand(gameState.hands[currentPlayer],
                                        toHandPieceType(applied.captured.type))]
                    ELSE gameState.hands
      nextPlayer == Opponent(currentPlayer)
      newState == [gameState EXCEPT
                     !.board = applied.newBoard,
                     !.hands = newHands,
                     !.currentPlayer = nextPlayer,
                     !.moveHistory = Append(gameState.moveHistory, moveAction),
                     !.moveCount = gameState.moveCount + 1,
                     !.gamePhase = determineGamePhase(gameState.moveCount + 1),
                     !.isCheck = isInCheck(applied.newBoard, nextPlayer)]
      withSfen == [newState EXCEPT
                     !.positionHistory = Append(gameState.positionHistory,
                                                gameStateToSfen(newState))]
  IN [withSfen EXCEPT !.result = checkGameResult(withSfen)]

\* The newState executeDrop hands to setGameState.
executeDrop(gameState, pieceType, to) ==
  LET currentPlayer == gameState.currentPlayer
      dropAction == DropAction(to, pieceType)
      newBoard == applyDrop(gameState.board, dropAction, currentPlayer)
      newHands == [gameState.hands EXCEPT
                     ![currentPlayer] =
                       removeFromHand(gameState.hands[currentPlayer], pieceType)]
      nextPlayer == Opponent(currentPlayer)
      newState == [gameState EXCEPT
                     !.board = newBoard,
                     !.hands = newHands,
                     !.currentPlayer = nextPlayer,
                     !.moveHistory = Append(gameState.moveHistory, dropAction),
                     !.moveCount = gameState.moveCount + 1,
                     !.gamePhase = determineGamePhase(gameState.moveCount + 1),
                     !.isCheck = isInCheck(newBoard, nextPlayer)]
      withSfen == [newState EXCEPT
                     !.positionHistory = Append(gameState.positionHistory,
                                                gameStateToSfen(newState))]
  IN [withSfen EXCEPT !.result = checkGameResult(withSfen)]

\* tryMove and executeAiMove: the promotion tests on the piece that moves.
MoveCanPromote(board, from, to, currentPlayer) ==
  /\ canPromote(getPieceAt(board, from).type)
  /\ ~isPromotedPiece(getPieceAt(board, from).type)
  /\ canPromoteMove(from, to, currentPlayer)

MoveMustPromote(board, from, to, currentPlayer) ==
  mustPromote(getPieceAt(board, from).type, to, currentPlayer)

\* legalMoves (useMemo): the destinations shown for the selected square.
legalMoves(gameState, selected) ==
  IF selected = NoPosition
    THEN {}
    ELSE IF \/ getPieceAt(gameState.board, selected) = Null
            \/ getPieceAt(gameState.board, selected).owner #
                 gameState.currentPlayer
           THEN {}
           ELSE getLegalDestinations(gameState.board, selected,
                                     gameState.currentPlayer)

(***************************************************************************)
(* Positions the rules engine is driven from.  Each is the standard setup   *)
(* with a few pieces relocated or captured: material is complete, no file   *)
(* holds two unpromoted pawns of one side, no piece stands on a dead square *)
(* and the side that has just moved is not in check.                        *)
(***************************************************************************)
WithSquares(board, squares) ==
  [row \in 0..8 |-> [col \in 0..8 |->
     IF \E q \in squares : q.pos = indexToPosition(row, col)
       THEN (CHOOSE q \in squares : q.pos = indexToPosition(row, col)).piece
       ELSE board[row][col]]]

Put(col, row, piece) == [pos |-> Pos(col, row), piece |-> piece]

\* createPiece with isPromoted set, as promotePiece leaves a promoted piece.
PromotedPiece(type, owner) ==
  [type |-> type, owner |-> owner, isPromoted |-> TRUE]

\* Gote's king in the corner 1a behind its pawn on 1c; sente has a promoted
\* pawn on 2c, a gold on 3b, a lance on 1i behind an open file, and a pawn,
\* a lance and a knight in hand; gote holds sente's pawn of file 1.
CornerBoard ==
  WithSquares(createInitialBoard,
    { Put(5, 1, Null), Put(1, 1, createPiece("king", "gote")),
      Put(2, 1, Null),
      Put(2, 2, Null), Put(7, 2, createPiece("bishop", "gote")),
      Put(2, 3, PromotedPiece("promotedPawn", "sente")),
      Put(2, 7, Null), Put(1, 7, Null),
      Put(4, 9, Null), Put(3, 2, createPiece("gold", "sente")) })

CornerHands ==
  [sente |-> [createEmptyHand EXCEPT !.pawn = 1, !.lance = 1, !.knight = 1],
   gote |-> [createEmptyHand EXCEPT !.pawn = 1]]

\* Files 4 and 5 are open above gote's king (its pawns are in sente's
\* hand), the gold of 4a stands on 3b, and sente's rook is on 3d.
ChaseBoard ==
  WithSquares(createInitialBoard,
    { Put(4, 1, Null), Put(3, 2, createPiece("gold", "gote")),
      Put(4, 3, Null), Put(5, 3, Null),
      Put(2, 8, Null), Put(3, 4, createPiece("rook", "sente")) })

ChaseHands ==
  [sente |-> [createEmptyHand EXCEPT !.pawn = 2], gote |-> createEmptyHand]

\* The pawns of file 5 have been exchanged: each side holds the other's,
\* and the square in front of either king can take a pawn drop.
ExchangeBoard ==
  WithSquares(createInitialBoard, { Put(5, 3, Null), Put(5, 7, Null) })

ExchangeHands ==
  [sente |-> [createEmptyHand EXCEPT !.pawn = 1],
   gote |-> [createEmptyHand EXCEPT !.pawn = 1]]

\* The edge file after 1.P-1f P-1d 2.P-1e Px1e 3.R-1h P-3d 4.K-6h B-3c
\* 5.K-7h N-1c: sente's rook stands on 1h in front of its lance, gote's pawn
\* on 1e is guarded by the bishop on 3c alone (the knight on 1c shuts the
\* lance of 1a in), and gote holds sente's pawn of file 1.
EdgeBoard ==
  WithSquares(createInitialBoard,
    { Put(1, 7, Null), Put(2, 8, Null), Put(1, 8, createPiece("rook", "sente")),
      Put(5, 9, Null), Put(7, 8, createPiece("king", "sente")),
      Put(2, 1, Null), Put(1, 3, createPiece("knight", "gote")),
      Put(1, 5, createPiece("pawn", "gote")),
      Put(2, 2, Null), Put(3, 3, createPiece("bishop", "gote")),
      Put(3, 4, createPiece("pawn", "gote")) })

EdgeHands ==
  [sente |-> createEmptyHand, gote |-> [createEmptyHand EXCEPT !.pawn = 1]]

\* The pawns of files 1 to 4 face each other after sente pushed each of its
\* four twice and gote pushed each of its four once, its king stepping to 5b
\* and back in between: whoever moves can take a pawn on any of the files,
\* and nothing has been taken yet.
FrontFiles == 1..4

FrontBoard ==
  WithSquares(createInitialBoard,
    UNION { { Put(c, 7, Null), Put(c, 5, createPiece("pawn", "sente")),
              Put(c, 3, Null), Put(c, 4, createPiece("pawn", "gote")) } :
            c \in FrontFiles })

FrontHands == [sente |-> createEmptyHand, gote |-> createEmptyHand]

\* A game in progress from the given board and hands, sente to move.  The
\* plies that led to the position are left out of moveHistory,
\* positionHistory and moveCount: material has been captured since, so none
\* of them repeats a position reached from here on, and the position
\* history starts with the position itself, as createInitialState seeds it.
StateFrom(board, hands) ==
  LET base == [createInitialGameState EXCEPT !.board = board, !.hands = hands]
  IN [base EXCEPT !.positionHistory = <<gameStateToSfen(base)>>]

Scenarios == 1..4

ScenarioState(n) ==
  CASE n = 1 -> createInitialState
    [] n = 2 -> StateFrom(CornerBoard, CornerHands)
    [] n = 3 -> StateFrom(ChaseBoard, ChaseHands)
    [] n = 4 -> StateFrom(ExchangeBoard, ExchangeHands)
    [] n = 5 -> StateFrom(EdgeBoard, EdgeHands)
    [] n = 6 -> StateFrom(FrontBoard, FrontHands)

\* Plies explored from each position.
MaxPlyShuffle == 8
MaxPlyCorner == 3
MaxPlyChase == 9
MaxPlyExchange == 3

MaxPly(n) ==
  CASE n = 1 -> MaxPlyShuffle
    [] n = 2 -> MaxPlyCorner
    [] n = 3 -> MaxPlyChase
    [] n = 4 -> MaxPlyExchange

\* Squares between which moves are explored from each position.
Focus(n) ==
  CASE n = 1 -> { Pos(5, 9), Pos(5, 8), Pos(4, 8), Pos(5, 1), Pos(5, 2) }
    [] n = 2 -> { Pos(1, 2), Pos(1, 3), Pos(1, 4), Pos(1, 9),
                  Pos(2, 1), Pos(2, 2), Pos(2, 4) }
    [] n = 3 -> { Pos(3, 4), Pos(4, 4), Pos(5, 4), Pos(5, 1), Pos(4, 1) }
    [] n = 4 -> { Pos(5, 1), Pos(5, 2), Pos(4, 1), Pos(5, 8), Pos(5, 9) }

(***************************************************************************)
(* ai/evaluation.ts, ai/intermediate.ts, ai/multiStageEngine.ts and         *)
(* api/openai.ts: evaluation and search.  The three engines share one       *)
(* shape and differ in their tables, leaf evaluators and constants, so each *)
(* operator takes the engine it is of.  Scores are kept in tenths (the      *)
(* source multiplies by 0.3 and 0.1), so every number of the source appears *)
(* here times ten; the sums are exact, where the source adds doubles.        *)
(***************************************************************************)
Engines == {"intermediate", "multiStage", "openai"}

Infinity == 1000000000

PIECE_VALUES ==
  [king |-> 0, rook |-> 1000, bishop |-> 900, gold |-> 500, silver |-> 450,
   knight |-> 350, lance |-> 300, pawn |-> 100, promotedRook |-> 1300,
   promotedBishop |-> 1200, promotedSilver |-> 500, promotedKnight |-> 500,
   promotedLance |-> 500, promotedPawn |-> 600]

HAND_PIECE_VALUES(engine) ==
  IF engine = "multiStage"
    THEN [rook |-> 1200, bishop |-> 1100, gold |-> 550, silver |-> 500,
          knight |-> 400, lance |-> 350, pawn |-> 150]
    ELSE [rook |-> 1200, bishop |-> 1100, gold |-> 550, silver |-> 500,
          knight |-> 350, lance |-> 300, pawn |-> 120]

Abs(x) == IF x < 0 THEN -x ELSE x

MathMax(a, b) == IF a >= b THEN a ELSE b

MathMin(a, b) == IF a <= b THEN a ELSE b

\* f[lo] + f[lo+1] + ... + f[hi]: a for loop that adds to a total.
RECURSIVE SumOver(_, _, _)
SumOver(f, lo, hi) ==
  IF lo > hi THEN 0
  ELSE IF lo = hi THEN f[lo]
  ELSE SumOver(f, lo, (lo + hi) \div 2)
       + SumOver(f, (lo + hi) \div 2 + 1, hi)

getCentralControlBonus(col, row) ==
  MathMax(0, 20 - (Abs(col - 4) + Abs(row - 4)) * 3)

\* The guard bonus per own piece next to the king.
GuardBonus(engine) == IF engine = "openai" THEN 15 ELSE 10

getKingSafetyScore(engine, board, player) ==
  LET king == findKingPosition(board, player)
      kingRow == king.row - 1
      kingCol == 9 - king.col
      zone == IF player = "sente"
                THEN IF kingRow >= 6 THEN 50 ELSE IF kingRow >= 4 THEN 0
                     ELSE -30
                ELSE IF kingRow <= 2 THEN 50 ELSE IF kingRow <= 4 THEN 0
                     ELSE -30
      guards == {d \in (-1..1) \X (-1..1) :
                   /\ d # <<0, 0>>
                   /\ kingRow + d[1] \in 0..8
                   /\ kingCol + d[2] \in 0..8
                   /\ board[kingRow + d[1]][kingCol + d[2]].owner = player}
  IN IF king = NoPosition THEN -10000
     ELSE zone + GuardBonus(engine) * Cardinality(guards)

\* The two loops over the board: piece values, with the centre bonus
\* (times 0.3) where the evaluator adds it.
BoardScore(board, withCentre) ==
  SumOver([i \in 1..81 |->
           LET piece == board[RowOf(i - 1)][ColOf(i - 1)]
               multiplier == IF piece.owner = "sente" THEN 1 ELSE -1
           IN IF piece = Null THEN 0
              ELSE multiplier *
                     (PIECE_VALUES[piece.type] * 10
                      + IF withCentre /\ piece.type # "king"
                          THEN getCentralControlBonus(ColOf(i - 1),
                                                      RowOf(i - 1)) * 3
                          ELSE 0)],
          1, 81)

HandScore(engine, hands) ==
  SumOver([k \in 1..Len(HandPieceTypes) |->
           (hands.sente[HandPieceTypes[k]] - hands.gote[HandPieceTypes[k]])
             * HAND_PIECE_VALUES(engine)[HandPieceTypes[k]] * 10],
          1, Len(HandPieceTypes))

\* evaluation.ts, used by multiStageEngine.
quickEvaluate(st) == BoardScore(st.board, FALSE) + HandScore("multiStage", st.hands)

\* evaluateBoardAdvanced of intermediate.ts and quickEvaluate of openai.ts.
evaluateBoardAdvanced(engine, st) ==
  BoardScore(st.board, TRUE) + HandScore(engine, st.hands)
  + 10 * getKingSafetyScore(engine, st.board, "sente")
  - 10 * getKingSafetyScore(engine, st.board, "gote")
  - (IF isInCheck(st.board, "sente") THEN 1500 ELSE 0)
  + (IF isInCheck(st.board, "gote") THEN 1500 ELSE 0)

\* The state applyMoveToState builds from what applyMove returned.
StateAfterMove(st, applied) ==
  [st EXCEPT
     !.board = applied.newBoard,
     !.hands =
       IF applied.captured # Null
         THEN [st.hands EXCEPT
                 ![st.currentPlayer] =
                   addToHand(@, toHandPieceType(applied.captured.type))]
         ELSE st.hands,
     !.currentPlayer = IF st.currentPlayer = "sente" THEN "gote" ELSE "sente",
     !.moveCount = @ + 1]

applyMoveToState(st, move) ==
  IF move.type = "move"
    THEN StateAfterMove(st, applyMove(st.board, move))
    ELSE [st EXCEPT
            !.board = applyDrop(st.board, move, st.currentPlayer),
            !.hands = [st.hands EXCEPT
                         ![st.currentPlayer] = removeFromHand(@, move.piece)],
            !.currentPlayer =
              IF st.currentPlayer = "sente" THEN "gote" ELSE "sente",
            !.moveCount = @ + 1]

IsCapture(m) == m.type = "move" /\ m.captured # Undefined

\* The comparators of moves.sort, as the key that is sorted descending.
OrderKey(engine, m) ==
  IF engine = "multiStage"
    THEN (IF IsCapture(m)
            THEN PIECE_VALUES[m.captured] * 10 - PIECE_VALUES[m.piece]
            ELSE 0)
         + (IF m.type = "move" /\ m.promote THEN 300 ELSE 0)
    ELSE IF IsCapture(m) THEN PIECE_VALUES[m.captured] ELSE 0

OrderKeys(engine, moves) ==
  [i \in 1..Len(moves) |-> OrderKey(engine, moves[i])]

\* The comparator of quiescenceSearch (captured - piece * 0.1), in tenths.
CaptureKey(m) == PIECE_VALUES[m.captured] * 10 - PIECE_VALUES[m.piece]

CaptureKeys(moves) == [i \in 1..Len(moves) |-> CaptureKey(moves[i])]

\* Array.prototype.sort is stable: the indices in descending order of key,
\* equal keys in their order of appearance.
RECURSIVE OrderDescending(_, _)
OrderDescending(keys, values) ==
  IF values = {} THEN <<>>
  ELSE LET top == CHOOSE v \in values : \A w \in values : w <= v
       IN SelectSeq([i \in 1..Len(keys) |-> i], LAMBDA i : keys[i] = top)
          \o OrderDescending(keys, values \ {top})

Permuted(moves, order) == [k \in 1..Len(moves) |-> moves[order[k]]]

SortDescending(moves, keys) ==
  Permuted(moves, OrderDescending(keys, Range(keys)))

\* MAX_QUIESCENCE_DEPTH and DELTA_MARGIN of quiescenceSearch.
MAX_QUIESCENCE_DEPTH == 6

DELTA_MARGIN == 200

\* The window and the count of a loop after an iteration received `r` from
\* its recursive call.
QuiescenceStepResult(maximizing, acc, r) ==
  [alpha |-> IF maximizing /\ r.score > acc.alpha THEN r.score ELSE acc.alpha,
   beta |-> IF ~maximizing /\ r.score < acc.beta THEN r.score ELSE acc.beta,
   nodes |-> r.nodes,
   plies |-> MathMax(acc.plies, r.plies + 1),
   returned |-> IF maximizing THEN MathMax(acc.alpha, r.score) >= acc.beta
                ELSE acc.alpha >= MathMin(acc.beta, r.score)]

RECURSIVE quiescenceSearch(_, _, _, _, _, _)
\* One iteration of the for loop of quiescenceSearch.  `acc` holds alpha,
\* beta and nodesSearched.count as the iteration finds them, whether the
\* loop has returned, and `plies`: how many calls deep the recursion went
\* below this one.
QuiescenceStep(st, move, maximizing, depth, standPat, acc) ==
  IF \/ acc.returned
     \/ maximizing
          /\ standPat + PIECE_VALUES[move.captured] * 10 + DELTA_MARGIN * 10
               < acc.alpha
     \/ ~maximizing
          /\ standPat - PIECE_VALUES[move.captured] * 10 - DELTA_MARGIN * 10
               > acc.beta
    THEN acc
    ELSE QuiescenceStepResult(maximizing, acc,
           quiescenceSearch(applyMoveToState(st, move), acc.alpha, acc.beta,
                            ~maximizing, acc.nodes, depth + 1))

\* The iterations lo..hi of the loop, in order.
RECURSIVE QuiescenceLoop(_, _, _, _, _, _, _, _)
QuiescenceLoop(st, moves, lo, hi, maximizing, depth, standPat, acc) ==
  IF lo > hi \/ acc.returned THEN acc
  ELSE IF lo = hi
    THEN QuiescenceStep(st, moves[lo], maximizing, depth, standPat, acc)
  ELSE QuiescenceLoop(st, moves, (lo + hi) \div 2 + 1, hi, maximizing, depth,
                      standPat,
                      QuiescenceLoop(st, moves, lo, (lo + hi) \div 2,
                                     maximizing, depth, standPat, acc))

\* What quiescenceSearch returns when its loop is over.
QuiescenceResult(maximizing, acc) ==
  [score |-> IF maximizing THEN acc.alpha ELSE acc.beta, nodes |-> acc.nodes,
   plies |-> acc.plies]

\* quiescenceSearch from the capture list on.
QuiescenceCaptures(st, alpha, beta, maximizing, count, depth, standPat,
                   captureMoves) ==
  IF Len(captureMoves) = 0
    THEN [score |-> standPat, nodes |-> count, plies |-> 0]
    ELSE QuiescenceResult(maximizing,
           QuiescenceLoop(st,
                          SortDescending(captureMoves,
                                         CaptureKeys(captureMoves)),
                          1, Len(captureMoves), maximizing, depth, standPat,
                          [alpha |-> alpha, beta |-> beta, nodes |-> count,
                           plies |-> 0, returned |-> FALSE]))

\* quiescenceSearch from the stand-pat evaluation on.
QuiescenceStandPat(st, alpha, beta, maximizing, count, depth, standPat) ==
  IF depth >= MAX_QUIESCENCE_DEPTH
    THEN [score |-> standPat, nodes |-> count, plies |-> 0]
  ELSE IF maximizing /\ standPat >= beta
    THEN [score |-> beta, nodes |-> count, plies |-> 0]
  ELSE IF ~maximizing /\ standPat <= alpha
    THEN [score |-> alpha, nodes |-> count, plies |-> 0]
  ELSE QuiescenceCaptures(st,
         IF maximizing /\ standPat > alpha THEN standPat ELSE alpha,
         IF ~maximizing /\ standPat < beta THEN standPat ELSE beta,
         maximizing, count, depth, standPat,
         SelectSeq(getAllLegalMoves(st), IsCapture))

\* A quiescence search that answers a stand-pat cutoff with the stand-pat
\* evaluation itself instead of the bound it met.
quiescenceSearchFailSoft(st, alpha, beta, maximizing, count, depth) ==
  IF /\ depth < MAX_QUIESCENCE_DEPTH
     /\ \/ maximizing /\ quickEvaluate(st) >= beta
        \/ ~maximizing /\ quickEvaluate(st) <= alpha
    THEN [score |-> quickEvaluate(st), nodes |-> count + 1, plies |-> 0]
    ELSE QuiescenceStandPat(st, alpha, beta, maximizing, count + 1, depth,
                            quickEvaluate(st))

quiescenceSearch(st, alpha, beta, maximizing, count, depth) ==
  QuiescenceStandPat(st, alpha, beta, maximizing, count + 1, depth,
                     quickEvaluate(st))

\* The constant the mate score subtracts the remaining depth from.
MateDepthBase(engine) == IF engine = "intermediate" THEN 3 ELSE 5

MateScore(engine, depth, maximizing) ==
  IF maximizing
    THEN -1000000 + (MateDepthBase(engine) - depth) * 10000
    ELSE 1000000 - (MateDepthBase(engine) - depth) * 10000

\* minimax at depth 0, after nodesSearched.count++ has made the count.
LeafScore(engine, st, alpha, beta, maximizing, count) ==
  IF engine = "multiStage"
    THEN quiescenceSearch(st, alpha, beta, maximizing, count, 0)
    ELSE [score |-> evaluateBoardAdvanced(engine, st), nodes |-> count]

\* A SearchResult without a move.
NullMoveResult(leaf) ==
  [score |-> leaf.score, move |-> [type |-> "null"], nodes |-> leaf.nodes]

\* The variables of a loop of minimax after an iteration received `r` from
\* its recursive call.
MinimaxStepResult(maximizing, move, acc, r) ==
  [alpha |-> IF maximizing THEN MathMax(acc.alpha, r.score) ELSE acc.alpha,
   beta |-> IF maximizing THEN acc.beta ELSE MathMin(acc.beta, r.score),
   score |-> IF maximizing THEN MathMax(acc.score, r.score)
             ELSE MathMin(acc.score, r.score),
   move |-> IF (maximizing /\ r.score > acc.score)
               \/ (~maximizing /\ r.score < acc.score)
              THEN move ELSE acc.move,
   nodes |-> r.nodes,
   broken |-> IF maximizing THEN acc.beta <= MathMax(acc.alpha, r.score)
              ELSE MathMin(acc.beta, r.score) <= acc.alpha]

RECURSIVE minimax(_, _, _, _, _, _, _)
\* One iteration of the for loop of minimax.  `acc` holds alpha, beta, the
\* best score and move and nodesSearched.count as the iteration finds them,
\* and whether the loop has been left by `break`.
MinimaxStep(engine, st, move, depth, maximizing, acc) ==
  IF acc.broken THEN acc
  ELSE MinimaxStepResult(maximizing, move, acc,
         minimax(engine, applyMoveToState(st, move), depth - 1, acc.alpha,
                 acc.beta, ~maximizing, acc.nodes))

\* The iterations lo..hi of the loop, in order.
RECURSIVE MinimaxLoop(_, _, _, _, _, _, _, _)
MinimaxLoop(engine, st, moves, lo, hi, depth, maximizing, acc) ==
  IF lo > hi \/ acc.broken THEN acc
  ELSE IF lo = hi
    THEN MinimaxStep(engine, st, moves[lo], depth, maximizing, acc)
  ELSE MinimaxLoop(engine, st, moves, (lo + hi) \div 2 + 1, hi, depth,
                   maximizing,
                   MinimaxLoop(engine, st, moves, lo, (lo + hi) \div 2,
                               depth, maximizing, acc))

\* What minimax returns when its loop is over.
MinimaxResult(acc) ==
  [score |-> acc.score, move |-> acc.move, nodes |-> acc.nodes]

\* minimax from the move list on.
MinimaxMoves(engine, st, depth, alpha, beta, maximizing, count, moves) ==
  IF Len(moves) = 0
    THEN [score |-> IF isInCheck(st.board, st.currentPlayer)
                      THEN MateScore(engine, depth, maximizing)
                      ELSE 0,
          move |-> [type |-> "null"], nodes |-> count]
    ELSE MinimaxResult(
           MinimaxLoop(engine, st,
                       SortDescending(moves, OrderKeys(engine, moves)),
                       1, Len(moves), depth, maximizing,
                       [alpha |-> alpha, beta |-> beta,
                        score |-> IF maximizing THEN -Infinity ELSE Infinity,
                        move |-> [type |-> "null"], nodes |-> count,
                        broken |-> FALSE]))

\* `count` is nodesSearched.count at the call; the result carries the count
\* at the return.  A null move is [type |-> "null"].
minimax(engine, st, depth, alpha, beta, maximizing, count) ==
  IF depth = 0
    THEN NullMoveResult(LeafScore(engine, st, alpha, beta, maximizing,
                                  count + 1))
    ELSE MinimaxMoves(engine, st, depth, alpha, beta, maximizing, count + 1,
                      getAllLegalMoves(st))

(***************************************************************************)
(* The objects behind the values.  A Board is an array of nine row arrays,  *)
(* a row holds references to Piece objects (or null), a Hand is an object.  *)
(* The heap maps each allocated address to the object stored there, and the *)
(* copying functions of board.ts and legalMoves.ts are translated statement *)
(* by statement as reads, allocations and writes on it.                     *)
(***************************************************************************)
NullRef == 0

EmptyHeap == [next |-> 1, boards |-> <<>>, rows |-> <<>>, pieces |-> <<>>,
              hands |-> <<>>]

HeapResult(h, a) == [heap |-> h, addr |-> a]

ReadSquare(h, b, rowIndex, colIndex) ==
  h.rows[h.boards[b][rowIndex + 1]][colIndex + 1]

WriteSquare(h, b, rowIndex, colIndex, ref) ==
  [h EXCEPT !.rows[h.boards[b][rowIndex + 1]][colIndex + 1] = ref]

\* An object literal { type, owner, isPromoted }.
AllocPiece(h, piece) ==
  HeapResult([h EXCEPT !.next = @ + 1, !.pieces = @ @@ (h.next :> piece)],
             h.next)

\* An object literal of a Hand.
AllocHand(h, hand) ==
  HeapResult([h EXCEPT !.next = @ + 1, !.hands = @ @@ (h.next :> hand)],
             h.next)

\* The Board value stored at address b.
BoardAt(h, b) ==
  [rowIndex \in 0..8 |->
     [colIndex \in 0..8 |->
        IF ReadSquare(h, b, rowIndex, colIndex) = NullRef
          THEN Null
          ELSE h.pieces[ReadSquare(h, b, rowIndex, colIndex)]]]

\* A new outer array and nine new row arrays; fill(rowIndex, colIndex, base)
\* is the reference stored in each square.
AllocRows(h, fill(_, _, _)) ==
  LET base == h.next
  IN [h EXCEPT
        !.boards = @ @@ (base :> [r \in 1..9 |-> base + r]),
        !.rows = @ @@ [a \in (base + 1)..(base + 9) |->
                         [c \in 1..9 |-> fill(a - base - 1, c - 1, base)]]]

PieceSlot(rowIndex, colIndex, base) == base + 10 + 9 * rowIndex + colIndex

\* A copy that is the board it was given.
cloneBoardAlias(h, b) == HeapResult(h, b)

\* board.map(row => row.map(square => (square ? { ...square } : null)))
cloneBoard(h, b) ==
  LET base == h.next
      fill(rowIndex, colIndex, at) ==
        IF ReadSquare(h, b, rowIndex, colIndex) = NullRef
          THEN NullRef
          ELSE PieceSlot(rowIndex, colIndex, at)
      occupied ==
        {i \in Indices : ReadSquare(h, b, RowOf(i), ColOf(i)) # NullRef}
      copies ==
        [a \in {PieceSlot(RowOf(i), ColOf(i), base) : i \in occupied} |->
           h.pieces[ReadSquare(h, b, (a - base - 10) \div 9,
                               (a - base - 10) % 9)]]
  IN HeapResult([AllocRows(h, fill) EXCEPT !.next = base + 91,
                                           !.pieces = @ @@ copies],
                base)

\* createInitialBoard(): the arrays and Piece objects of a board value.
AllocBoard(h, board) ==
  LET base == h.next
      fill(rowIndex, colIndex, at) ==
        IF board[rowIndex][colIndex] = Null
          THEN NullRef
          ELSE PieceSlot(rowIndex, colIndex, at)
      occupied == {i \in Indices : board[RowOf(i)][ColOf(i)] # Null}
      objects ==
        [a \in {PieceSlot(RowOf(i), ColOf(i), base) : i \in occupied} |->
           board[(a - base - 10) \div 9][(a - base - 10) % 9]]
  IN HeapResult([AllocRows(h, fill) EXCEPT !.next = base + 91,
                                           !.pieces = @ @@ objects],
                base)

applyMoveOnHeap(h, b, move) ==
  LET clone == cloneBoard(h, b)
      newBoard == clone.addr
      from == positionToIndex(move.from)
      to == positionToIndex(move.to)
      movingPiece == ReadSquare(clone.heap, newBoard, from.rowIndex,
                                from.colIndex)
      captured == ReadSquare(clone.heap, newBoard, to.rowIndex, to.colIndex)
      cleared == WriteSquare(clone.heap, newBoard, from.rowIndex,
                             from.colIndex, NullRef)
      piece == cleared.pieces[movingPiece]
      promoted ==
        AllocPiece(cleared, [piece EXCEPT !.type = promotePiece(piece.type),
                                          !.isPromoted = TRUE])
      placed ==
        IF movingPiece = NullRef THEN cleared
        ELSE IF move.promote /\ canPromote(piece.type)
                /\ ~isPromotedPiece(piece.type)
          THEN WriteSquare(promoted.heap, newBoard, to.rowIndex, to.colIndex,
                           promoted.addr)
          ELSE WriteSquare(cleared, newBoard, to.rowIndex, to.colIndex,
                           movingPiece)
  IN [heap |-> placed, addr |-> newBoard, captured |-> captured]

applyDropOnHeap(h, b, drop, player) ==
  LET clone == cloneBoard(h, b)
      to == positionToIndex(drop.to)
      dropped == AllocPiece(clone.heap,
                            [type |-> drop.piece, owner |-> player,
                             isPromoted |-> FALSE])
  IN HeapResult(WriteSquare(dropped.heap, clone.addr, to.rowIndex,
                            to.colIndex, dropped.addr),
                clone.addr)

\* board.map(row => [...row]): new arrays, the Piece objects are shared.
setPieceAt(h, b, pos, ref) ==
  LET base == h.next
      fill(rowIndex, colIndex, at) == ReadSquare(h, b, rowIndex, colIndex)
      copied == [AllocRows(h, fill) EXCEPT !.next = base + 10]
      to == positionToIndex(pos)
  IN HeapResult(WriteSquare(copied, base, to.rowIndex, to.colIndex, ref),
                base)

addToHandOnHeap(h, a, pieceType) ==
  AllocHand(h, [h.hands[a] EXCEPT ![pieceType] = @ + 1])

removeFromHandOnHeap(h, a, pieceType) ==
  AllocHand(h, [h.hands[a] EXCEPT ![pieceType] = @ - 1])

\* What App holds after its first render: the board of
\* createInitialGameState and one of its hands.
InitialBoardHeap == AllocBoard(EmptyHeap, createInitialBoard)

InitialHandHeap == AllocHand(InitialBoardHeap.heap, createEmptyHand)

(***************************************************************************)
(* State                                                                    *)
(***************************************************************************)
VARIABLES
  screenState,        \* App: 'home' | 'game'
  gameMode,           \* App: 'pvp' | 'pvc'
  playerColor,        \* App: the human's side in a pvc game
  isAiThinking,       \* App
  history,            \* useGameHistory: [past, present, future]
  selectedPosition,   \* App: a Position or NoPosition (null)
  selectedHandPiece,  \* App: a hand piece type or NoHandPiece (null)
  lastMove,           \* App: the move last applied or NoMove (null)
  pendingPromotion,   \* App: [from, to, piece] or NoPending (null)
  autoPromote,        \* App: settings.autoPromote
  aiTasks,            \* executeAiMove calls suspended at an await, each
                      \* with the gameState and playerColor of its closure
  aiLevel,            \* App: 'beginner' | 'intermediate' | 'advanced' | 'llm'
  strategicMemory,    \* multiStageEngine: the module-level advisor memory
  lastApplied,        \* the last call of executeMoveWithPromotion or
                      \* executeDrop: the gameState of its closure and the
                      \* action it built, or NoApplied
  scenario,           \* the position the rules engine is driven from
                      \* (0: the application followed through a long game)
  state,              \* the GameState the rules engine has reached
  heap,               \* the objects allocated so far
  held,               \* the boards and hands some caller still holds: the
                      \* address of each and the value it had when it was
                      \* handed over
  searchRuns,         \* the searches run on `state` since it was reached:
                      \* engine, depth and what minimax returned
  thought,            \* the last call thinkMove(state, level): the level,
                      \* what the advisor and Math.random answered and what
                      \* the call came to, or NoThought
  quiesced            \* the last call quiescenceSearch(state, alpha, beta,
                      \* ...): its window, its depth and what it returned,
                      \* or NoQuiescence

appVars == <<screenState, gameMode, playerColor, isAiThinking, history,
             selectedPosition, selectedHandPiece, lastMove, pendingPromotion,
             autoPromote, aiTasks, lastApplied, aiLevel, strategicMemory>>

vars == <<screenState, gameMode, playerColor, isAiThinking, history,
          selectedPosition, selectedHandPiece, lastMove, pendingPromotion,
          autoPromote, aiTasks, lastApplied, aiLevel, strategicMemory,
          scenario, state, heap, held, searchRuns, thought, quiesced>>

searchVars == <<searchRuns, thought, quiesced>>

advisorVars == <<aiLevel, strategicMemory>>

heapVars == <<heap, held>>

NoHandPiece == "null"

NoMove == [type |-> "null"]

NoThought == [level |-> "null"]

NoQuiescence == [depth |-> -1]

NoPending == [from |-> NoPosition, to |-> NoPosition, piece |-> Null]

NoApplied == [gameState |-> "null", move |-> NoMove]

\* The initial value of strategicMemory, which resetStrategicMemory assigns
\* again (currentPlan and recentMoves; the other fields are written only by
\* the 'llm' level).
EmptyStrategicMemory == [currentPlan |-> "", recentMoves |-> <<>>]

\* The useState initial values of App.
InitApp ==
  /\ screenState = "home"
  /\ gameMode = "pvc"
  /\ playerColor = "sente"
  /\ isAiThinking = FALSE
  /\ history = useGameHistory(createInitialState)
  /\ selectedPosition = NoPosition
  /\ selectedHandPiece = NoHandPiece
  /\ lastMove = NoMove
  /\ pendingPromotion = NoPending
  /\ autoPromote = FALSE
  /\ aiTasks = <<>>
  /\ lastApplied = NoApplied
  /\ aiLevel = "beginner"
  /\ strategicMemory = EmptyStrategicMemory

InitHeap ==
  /\ searchRuns = <<>>
  /\ thought = NoThought
  /\ quiesced = NoQuiescence
  /\ heap = InitialHandHeap.heap
  /\ held = [boards |-> <<[addr |-> InitialBoardHeap.addr,
                           value |-> createInitialBoard]>>,
             hands |-> <<[addr |-> InitialHandHeap.addr,
                          value |-> createEmptyHand]>>]

(***************************************************************************)
(* The rules engine driven move by move: each step applies one element of   *)
(* getAllLegalMoves(state) with the state update of executeMoveWithPromotion *)
(* or executeDrop, and play stops when the result is no longer 'ongoing'.   *)
(***************************************************************************)
InitRules ==
  /\ InitApp
  /\ InitHeap
  /\ scenario \in Scenarios
  /\ state = ScenarioState(scenario)

RulesEnabled ==
  /\ state.result.type = "ongoing"
  /\ state.moveCount < MaxPly(scenario)

RulesMove(from, to, promote) ==
  /\ RulesEnabled
  /\ getPieceAt(state.board, from) # Null
  /\ getPieceAt(state.board, from).owner = state.currentPlayer
  /\ BuildMoveAction(state, from, to, promote) \in
       Range(getLegalMovesForPiece(state.board, from, state.currentPlayer))
  /\ ~ExecuteMoveThrows(state, from, to)
  /\ state' = executeMoveWithPromotion(state, from, to, promote)
  /\ UNCHANGED <<appVars, scenario, heapVars, searchVars>>

RulesDrop(pieceType, to) ==
  /\ RulesEnabled
  /\ isLegalDrop(state.board, DropAction(to, pieceType), state.currentPlayer,
                 state.hands[state.currentPlayer])
  /\ state' = executeDrop(state, pieceType, to)
  /\ UNCHANGED <<appVars, scenario, heapVars, searchVars>>

NextRules ==
  \/ \E from \in Focus(scenario), to \in Focus(scenario), promote \in BOOLEAN :
       RulesMove(from, to, promote)
  \/ \E k \in DOMAIN HandPieceTypes, to \in Focus(scenario) :
       RulesDrop(HandPieceTypes[k], to)

SpecRules == InitRules /\ [][NextRules]_vars

(***************************************************************************)
(* Properties of the rules engine (checked under SpecRules)                 *)
(***************************************************************************)
\* The board after an element of getAllLegalMoves(s) is applied.
BoardAfter(s, m) ==
  IF m.type = "move"
    THEN applyMove(s.board, m).newBoard
    ELSE applyDrop(s.board, m, s.currentPlayer)

\* How often the position just reached occurred earlier in the game.
EarlierOccurrences(s) ==
  Cardinality({i \in 1..(Len(s.positionHistory) - 1) :
                 s.positionHistory[i] = s.positionHistory[Len(s.positionHistory)]})

\* The state in which the opponent answers a drop of `player`.
AfterDrop(s, player, drop) ==
  [s EXCEPT !.board = applyDrop(s.board, drop, player),
            !.hands = [s.hands EXCEPT
                         ![player] = removeFromHand(s.hands[player], drop.piece)],
            !.currentPlayer = Opponent(player)]

\* The drop leaves the opponent in check with no legal reply.
DeliversMate(s, player, drop) ==
  /\ isInCheck(applyDrop(s.board, drop, player), Opponent(player))
  /\ Len(getAllLegalMoves(AfterDrop(s, player, drop))) = 0

SquareOf(i) == indexToPosition(RowOf(i), ColOf(i))

FileHolds(board, col, piece) ==
  \E row \in 1..9 : getPieceAt(board, Pos(col, row)) = piece

\* A hand of the player that holds a pawn: the one it has, or that one
\* with a pawn added.
HandsWithPawn(s, player) ==
  { s.hands[player], [s.hands[player] EXCEPT !.pawn = @ + 1] }

\* The destinations on which the piece could never move again.
ForcedDestination(pieceType, to, owner) ==
  \/ /\ pieceType \in {"pawn", "lance"}
     /\ to.row = (IF owner = "sente" THEN 1 ELSE 9)
  \/ /\ pieceType = "knight"
     /\ to.row \in (IF owner = "sente" THEN {1, 2} ELSE {8, 9})

\* A GameState built afresh from the position of s: pieces made by
\* createPiece, every other field as createInitialGameState leaves it.
Rebuilt(s) ==
  [createInitialGameState EXCEPT
     !.board = [row \in 0..8 |-> [col \in 0..8 |->
                  IF s.board[row][col] = Null
                    THEN Null
                    ELSE createPiece(s.board[row][col].type,
                                     s.board[row][col].owner)]],
     !.hands = s.hands,
     !.currentPlayer = s.currentPlayer]

\* C1: in every state reached by legal play, each move getAllLegalMoves
\* returns, relocation or drop, leaves the mover's own king un-attacked
\* once it is applied.
C1_LegalMovesLeaveKingSafe ==
  \A m \in Range(getAllLegalMoves(state)) :
    ~isInCheck(BoardAfter(state, m), state.currentPlayer)

\* C1 witness: the mover is in check and still has legal moves, so the
\* filter has discarded raw moves and kept the escapes.
C1_Witness ==
  /\ state.moveCount > 0
  /\ isInCheck(state.board, state.currentPlayer)
  /\ Len(getAllLegalMoves(state)) > 0

\* C2: when the side to move is neither in check nor without a legal move,
\* the result computed for the state just produced is the repetition draw
\* exactly when the position has occurred three times before (its fourth
\* occurrence), and not on its second or third occurrence.
C2_DrawOnFourthOccurrence ==
  ( /\ state.moveCount > 0
    /\ ~isInCheck(state.board, state.currentPlayer)
    /\ ~NoLegalMoves(state) )
  => ( state.result = GameResult("repetition", Undefined, "draw")
       <=> EarlierOccurrences(state) >= 3 )

\* C3: the result computed for the state just produced is checkmate, won by
\* the opponent of the side to move, exactly when the side to move is in
\* check and getAllLegalMoves of the state is empty.
C3_CheckmateIffNoLegalMove ==
  state.moveCount > 0
  => ( state.result = GameResult("checkmate", Opponent(state.currentPlayer),
                                 Undefined)
       <=> ( /\ isInCheck(state.board, state.currentPlayer)
             /\ Len(getAllLegalMoves(state)) = 0 ) )

\* C5: isLegalDrop never accepts a pawn drop after which the opponent is in
\* check and has no legal reply, for either side and every square.
C5_NoPawnDropMate ==
  \A player \in Players, i \in Indices :
    isLegalDrop(state.board, DropAction(SquareOf(i), "pawn"), player,
                state.hands[player])
    => ~DeliversMate(state, player, DropAction(SquareOf(i), "pawn"))

\* C5 witness: the mover holds a pawn and a drop of it on an empty square,
\* on a file without its pawn and off the dead rank, would mate; the drop
\* is rejected.
C5_Witness ==
  \E i \in Indices :
    LET drop == DropAction(SquareOf(i), "pawn")
        player == state.currentPlayer
    IN /\ state.hands[player].pawn > 0
       /\ getPieceAt(state.board, SquareOf(i)) = Null
       /\ ~FileHolds(state.board, SquareOf(i).col, createPiece("pawn", player))
       /\ ~ForcedDestination("pawn", SquareOf(i), player)
       /\ DeliversMate(state, player, drop)
       /\ ~isLegalDrop(state.board, drop, player, state.hands[player])

\* C6: for either player, every square and every hand holding a pawn,
\* isLegalDrop rejects a pawn drop on a file that holds an unpromoted pawn
\* of the player; on a file that holds only a promoted pawn of the player
\* a pawn drop is rejected by one of the other tests alone.
C6_Nifu ==
  \A player \in Players, i \in Indices :
    \A hand \in HandsWithPawn(state, player) :
      LET to == SquareOf(i)
          drop == DropAction(to, "pawn")
      IN /\ FileHolds(state.board, to.col, createPiece("pawn", player))
            => ~isLegalDrop(state.board, drop, player, hand)
         /\ ( /\ FileHolds(state.board, to.col,
                           PromotedPiece("promotedPawn", player))
              /\ ~FileHolds(state.board, to.col, createPiece("pawn", player))
              /\ ~isLegalDrop(state.board, drop, player, hand) )
            => \/ hand.pawn <= 0
               \/ getPieceAt(state.board, to) # Null
               \/ ForcedDestination("pawn", to, player)
               \/ isCheckmate(applyDrop(state.board, drop, player),
                              Opponent(player), NoHand)
               \/ isInCheck(applyDrop(state.board, drop, player), player)

\* C6 witness: the mover holds a pawn; one empty square off the dead rank
\* lies on a file with its unpromoted pawn and the drop there is rejected,
\* another lies on a file with its promoted pawn only and the drop there is
\* accepted.
C6_Witness ==
  LET player == state.currentPlayer
      hand == state.hands[player]
  IN /\ hand.pawn > 0
     /\ \E i \in Indices :
          /\ getPieceAt(state.board, SquareOf(i)) = Null
          /\ ~ForcedDestination("pawn", SquareOf(i), player)
          /\ FileHolds(state.board, SquareOf(i).col,
                       createPiece("pawn", player))
          /\ ~isLegalDrop(state.board, DropAction(SquareOf(i), "pawn"),
                          player, hand)
     /\ \E i \in Indices :
          /\ FileHolds(state.board, SquareOf(i).col,
                       PromotedPiece("promotedPawn", player))
          /\ isLegalDrop(state.board, DropAction(SquareOf(i), "pawn"),
                         player, hand)

\* C7: getLegalMovesForPiece returns no unpromoted move of a pawn or lance
\* to the mover's farthest rank, nor of a knight to its two farthest ranks:
\* every returned move to such a destination has promote = TRUE.
C7_ForcedPromotion ==
  \A i \in Indices :
    LET piece == getPieceAt(state.board, SquareOf(i))
    IN piece # Null
       => \A m \in Range(getLegalMovesForPiece(state.board, SquareOf(i),
                                               piece.owner)) :
            ForcedDestination(m.piece, m.to, piece.owner) => m.promote

\* C7 witness: a pawn, lance or knight of the mover has a legal move to
\* such a destination, returned with promote = TRUE.
C7_Witness ==
  \E i \in Indices :
    \E m \in Range(getLegalMovesForPiece(state.board, SquareOf(i),
                                         state.currentPlayer)) :
      /\ ForcedDestination(m.piece, m.to, state.currentPlayer)
      /\ m.promote

\* C8: when the side to move is in check and has a legal move, the result
\* computed for the state just produced is the repetition won by the side
\* to move if the position occurred at least three times before, and is no
\* repetition at all if it occurred fewer than three times before.
C8_PerpetualCheckOnFourthOccurrence ==
  ( /\ state.moveCount > 0
    /\ isInCheck(state.board, state.currentPlayer)
    /\ ~NoLegalMoves(state) )
  => IF EarlierOccurrences(state) >= 3
       THEN state.result =
              GameResult("repetition", Undefined, state.currentPlayer)
       ELSE state.result.type # "repetition"

\* C10: the encoding of a state equals the encoding of a state built afresh
\* from its board's piece kinds and owners, its hands and its side to move,
\* whatever the other fields hold.
C10_SfenOfPositionOnly ==
  gameStateToSfen(state) = gameStateToSfen(Rebuilt(state))

\* C10 witness: a state that differs from the rebuilt one in its move and
\* position histories, ply count, result, check flag and a promoted piece.
C10_Witness ==
  /\ state.moveCount > 0
  /\ state.moveHistory # Rebuilt(state).moveHistory
  /\ state.positionHistory # Rebuilt(state).positionHistory
  /\ state.result # Rebuilt(state).result
  /\ state.isCheck # Rebuilt(state).isCheck
  /\ state.board # Rebuilt(state).board

\* applyMove and applyDrop contain no throw statement and no validation:
\* for every board and move they return a board.
ApplyMoveThrows(board, move) == FALSE

ApplyDropThrows(board, drop, player) == FALSE

\* The relocation named in the claim: from an empty square, or onto a piece
\* of the mover.
AbsentRelocation(s, from, to) ==
  \/ getPieceAt(s.board, from) = Null
  \/ /\ getPieceAt(s.board, to) # Null
     /\ getPieceAt(s.board, to).owner = s.currentPlayer

\* C12: applying a move that is absent from the legal-move set (a
\* relocation whose origin is empty or whose destination holds the mover's
\* own piece, a drop onto an occupied square) aborts with an error and
\* yields no board.
C12_AbsentMoveAborts ==
  /\ \A from \in Focus(scenario), to \in Focus(scenario) :
       LET piece == getPieceAt(state.board, from)
           move == MoveAction(from, to, piece.type, Undefined, FALSE)
       IN AbsentRelocation(state, from, to)
          => /\ ~IsLegalMoveOf(state, move)
             /\ ApplyMoveThrows(state.board, move)
  /\ \A to \in Focus(scenario) :
       getPieceAt(state.board, to) # Null
       => /\ ~IsLegalMoveOf(state, DropAction(to, "pawn"))
          /\ ApplyDropThrows(state.board, DropAction(to, "pawn"),
                             state.currentPlayer)

\* The tests of isLegalDrop up to and including the drop-mate rule, for a
\* pawn: the drop is rejected by the nested isCheckmate call.
RejectedAsDropMate(s, player, to) ==
  /\ s.hands[player].pawn > 0
  /\ getPieceAt(s.board, to) = Null
  /\ ~isDeadPosition("pawn", to, player)
  /\ ~HasOwnPawnOnFile(s.board, to, player)
  /\ isCheckmate(applyDrop(s.board, DropAction(to, "pawn"), player),
                 Opponent(player), NoHand)

\* C18: for the standard setup with empty hands and sente to move,
\* getAllLegalMoves returns exactly 30 moves, all of them relocations with
\* promote = FALSE and no capture, and no drop.
C18_ThirtyOpeningMoves ==
  ( /\ state.board = createInitialBoard
    /\ state.hands = [sente |-> createEmptyHand, gote |-> createEmptyHand]
    /\ state.currentPlayer = "sente" )
  => /\ Len(getAllLegalMoves(state)) = 30
     /\ Cardinality(Range(getAllLegalMoves(state))) = 30
     /\ \A m \in Range(getAllLegalMoves(state)) :
          /\ m.type = "move"
          /\ ~m.promote
          /\ m.captured = Undefined

\* C18 witness: the standard setup stands again after both kings have
\* moved away and back.
C18_Witness ==
  /\ state.moveCount = 4
  /\ state.board = createInitialBoard
  /\ state.currentPlayer = "sente"
  /\ Len(getAllLegalMoves(state)) = 30

\* C20: whenever isLegalDrop rejects a pawn drop of the side to move under
\* the drop-mate rule, the opponent is in check and has no legal reply
\* after the drop, drops from its own hand included.
C20_DropMateRejectionIsMate ==
  \A i \in Indices :
    RejectedAsDropMate(state, state.currentPlayer, SquareOf(i))
    => DeliversMate(state, state.currentPlayer,
                    DropAction(SquareOf(i), "pawn"))

\* C20 witness: a pawn drop of the side to move is rejected under the
\* drop-mate rule while the opponent holds a piece in hand.
C20_Witness ==
  \E i \in Indices :
    /\ RejectedAsDropMate(state, state.currentPlayer, SquareOf(i))
    /\ \E k \in DOMAIN HandPieceTypes :
         state.hands[Opponent(state.currentPlayer)][HandPieceTypes[k]] > 0

(***************************************************************************)
(* App.tsx: the application.  Every action is one event handler or one      *)
(* resumption of executeAiMove, together with the effect that runs after    *)
(* the render it causes.                                                    *)
(***************************************************************************)
\* Plies played in one game, snapshots kept in history.past, plies after
\* which an AI move is still computed, suspended executeAiMove calls, and
\* the squares that are clicked or moved between.
AppMaxPly == 5
MaxPast == 5
AiMaxPly == 2
MaxAiTasks == 1

\* The same two bounds for the long game of scenario 0, in which only the
\* kings are moved.
LongMaxPly == 8
LongMaxPast == 9

PlyBound == IF scenario = 0 THEN LongMaxPly ELSE AppMaxPly

PastBound == IF scenario = 0 THEN LongMaxPast ELSE MaxPast

AppFocus ==
  { Pos(7, 7), Pos(7, 6), Pos(3, 3), Pos(3, 4), Pos(8, 8), Pos(2, 2),
    Pos(3, 1) }

\* The choices of the home screen.
HomeSettings ==
  { [gameMode |-> "pvp", playerColor |-> "sente", aiLevel |-> "beginner"],
    [gameMode |-> "pvc", playerColor |-> "sente", aiLevel |-> "beginner"],
    [gameMode |-> "pvc", playerColor |-> "gote", aiLevel |-> "beginner"] }

gameState == history.present

\* The guards of executeAiMove, with the state of the render it belongs to.
AiMoveStarts(mode, color, present, thinking) ==
  /\ mode = "pvc"
  /\ present.currentPlayer # color
  /\ present.result.type = "ongoing"
  /\ ~thinking

\* useEffect on [gameMode, currentPlayer, playerColor, result,
\* executeAiMove]: after a render that changed one of them, executeAiMove
\* runs up to its first await and leaves a suspended call behind.
EffectAfterRender(mode, color, present, thinking, tasks, level) ==
  IF AiMoveStarts(mode, color, present, thinking)
    THEN /\ isAiThinking' = TRUE
         /\ aiTasks' = Append(tasks, [gameState |-> present,
                                      playerColor |-> color,
                                      aiLevel |-> level])
         /\ Len(tasks) < MaxAiTasks
         /\ present.moveCount < AiMaxPly
    ELSE /\ isAiThinking' = thinking
         /\ aiTasks' = tasks

\* The PromotionDialog is shown while pendingPromotion is set; it covers
\* the game screen, so nothing behind it is clicked.
PromotionDialogOpen == pendingPromotion # NoPending

\* setGameState / setLastMove / setSelectedPosition / setSelectedHandPiece
\* at the end of executeMoveWithPromotion and executeDrop, called from the
\* closure whose gameState is `closure`.
CommitMove(closure, newState, action) ==
  /\ Len(history.past) < PastBound
  /\ closure.moveCount < PlyBound
  /\ history' = setGameState(history, newState)
  /\ lastMove' = action
  /\ selectedPosition' = NoPosition
  /\ selectedHandPiece' = NoHandPiece
  /\ lastApplied' = [gameState |-> closure, move |-> action]

handleStartGame(homeSettings) ==
  /\ screenState = "home"
  /\ gameMode' = homeSettings.gameMode
  /\ playerColor' = homeSettings.playerColor
  /\ history' = reset(createInitialState)
  /\ selectedPosition' = NoPosition
  /\ selectedHandPiece' = NoHandPiece
  /\ pendingPromotion' = NoPending
  /\ lastMove' = NoMove
  /\ screenState' = "game"
  /\ EffectAfterRender(homeSettings.gameMode, homeSettings.playerColor,
                       createInitialState, isAiThinking, aiTasks,
                       homeSettings.aiLevel)
  /\ aiLevel' = homeSettings.aiLevel
  /\ lastApplied' = NoApplied
  /\ UNCHANGED <<autoPromote, strategicMemory, heapVars, searchVars, scenario, state>>

\* The guards at the top of handleSquareClick.
SquareClickEnabled ==
  /\ screenState = "game"
  /\ ~PromotionDialogOpen
  /\ gameState.result.type = "ongoing"
  /\ ~isAiThinking
  /\ ~(gameMode = "pvc" /\ gameState.currentPlayer # playerColor)
  /\ gameState.moveCount < PlyBound

\* handleSquareClick with a hand piece selected, on a legal drop square.
ClickDrop(position) ==
  /\ SquareClickEnabled
  /\ selectedHandPiece # NoHandPiece
  /\ isLegalDrop(gameState.board, DropAction(position, selectedHandPiece),
                 gameState.currentPlayer,
                 gameState.hands[gameState.currentPlayer])
  /\ ~RemoveFromHandThrows(gameState.hands[gameState.currentPlayer],
                           selectedHandPiece)
  /\ LET newState == executeDrop(gameState, selectedHandPiece, position)
     IN /\ CommitMove(gameState, newState,
                      DropAction(position, selectedHandPiece))
        /\ EffectAfterRender(gameMode, playerColor, newState, isAiThinking,
                             aiTasks, aiLevel)
  /\ UNCHANGED <<screenState, gameMode, playerColor, pendingPromotion,
                 autoPromote, advisorVars, heapVars, searchVars, scenario, state>>

\* handleSquareClick with a hand piece selected, on any other square.
ClickDropCancel(position) ==
  /\ SquareClickEnabled
  /\ selectedHandPiece # NoHandPiece
  /\ ~isLegalDrop(gameState.board, DropAction(position, selectedHandPiece),
                  gameState.currentPlayer,
                  gameState.hands[gameState.currentPlayer])
  /\ selectedHandPiece' = NoHandPiece
  /\ lastApplied' = NoApplied
  /\ UNCHANGED <<screenState, gameMode, playerColor, isAiThinking, history,
                 selectedPosition, lastMove, pendingPromotion, autoPromote,
                 aiTasks, advisorVars, heapVars, searchVars, scenario, state>>

\* handleSquareClick on a piece of the side to move.
ClickSelect(position) ==
  /\ SquareClickEnabled
  /\ selectedHandPiece = NoHandPiece
  /\ getPieceAt(gameState.board, position) # Null
  /\ getPieceAt(gameState.board, position).owner = gameState.currentPlayer
  /\ selectedPosition' = position
  /\ selectedHandPiece' = NoHandPiece
  /\ lastApplied' = NoApplied
  /\ UNCHANGED <<screenState, gameMode, playerColor, isAiThinking, history,
                 lastMove, pendingPromotion, autoPromote, aiTasks, advisorVars, heapVars, searchVars, scenario,
                 state>>

\* The remaining branch of handleSquareClick: a square is selected and the
\* click is on an empty square or an opposing piece.
ClickTarget(position) ==
  /\ SquareClickEnabled
  /\ selectedHandPiece = NoHandPiece
  /\ ~( /\ getPieceAt(gameState.board, position) # Null
        /\ getPieceAt(gameState.board, position).owner =
             gameState.currentPlayer )
  /\ selectedPosition # NoPosition


\* ... on a legal destination, where tryMove executes the move at once:
\* promotion is forced or impossible, or settings.autoPromote is on.
ClickMove(position) ==
  LET from == selectedPosition
      player == gameState.currentPlayer
      canProm == MoveCanPromote(gameState.board, from, position, player)
      mustProm == MoveMustPromote(gameState.board, from, position, player)
      promote == IF canProm /\ ~mustProm THEN TRUE ELSE mustProm
  IN /\ ClickTarget(position)
     /\ position \in legalMoves(gameState, selectedPosition)
     /\ (canProm /\ ~mustProm) => autoPromote
     /\ ~ExecuteMoveThrows(gameState, from, position)
     /\ LET newState == executeMoveWithPromotion(gameState, from, position,
                                                 promote)
        IN /\ CommitMove(gameState, newState,
                         BuildMoveAction(gameState, from, position, promote))
           /\ EffectAfterRender(gameMode, playerColor, newState,
                                isAiThinking, aiTasks, aiLevel)
     /\ UNCHANGED <<screenState, gameMode, playerColor, pendingPromotion,
                    autoPromote, advisorVars, heapVars, searchVars, scenario, state>>

\* ... on a legal destination, where tryMove opens the promotion dialog.
ClickMoveDialog(position) ==
  /\ ClickTarget(position)
  /\ position \in legalMoves(gameState, selectedPosition)
  /\ MoveCanPromote(gameState.board, selectedPosition, position,
                    gameState.currentPlayer)
  /\ ~MoveMustPromote(gameState.board, selectedPosition, position,
                      gameState.currentPlayer)
  /\ ~autoPromote
  /\ pendingPromotion' = [from |-> selectedPosition, to |-> position,
                          piece |-> getPieceAt(gameState.board,
                                               selectedPosition)]
  /\ lastApplied' = NoApplied
  /\ UNCHANGED <<screenState, gameMode, playerColor, isAiThinking, history,
                 selectedPosition, selectedHandPiece, lastMove, autoPromote,
                 aiTasks, advisorVars, heapVars, searchVars, scenario, state>>

\* ... on a square that is no legal destination.
ClickMoveCancel(position) ==
  /\ ClickTarget(position)
  /\ position \notin legalMoves(gameState, selectedPosition)
  /\ selectedPosition' = NoPosition
  /\ lastApplied' = NoApplied
  /\ UNCHANGED <<screenState, gameMode, playerColor, isAiThinking, history,
                 selectedHandPiece, lastMove, pendingPromotion, autoPromote,
                 aiTasks, advisorVars, heapVars, searchVars, scenario, state>>

\* handlePromotionChoice: the pending move is executed on the gameState of
\* the current render; executeMoveWithPromotion returns early when the
\* origin square is empty.
handlePromotionChoice(promote) ==
  /\ screenState = "game"
  /\ PromotionDialogOpen
  /\ gameState.moveCount < PlyBound
  /\ IF getPieceAt(gameState.board, pendingPromotion.from) = Null
       THEN /\ lastApplied' = NoApplied
            /\ UNCHANGED <<history, lastMove, selectedPosition,
                           selectedHandPiece, isAiThinking, aiTasks>>
       ELSE /\ ~ExecuteMoveThrows(gameState, pendingPromotion.from,
                                  pendingPromotion.to)
            /\ LET newState ==
                     executeMoveWithPromotion(gameState, pendingPromotion.from,
                                              pendingPromotion.to, promote)
               IN /\ CommitMove(gameState, newState,
                       BuildMoveAction(gameState, pendingPromotion.from,
                                       pendingPromotion.to, promote))
                  /\ EffectAfterRender(gameMode, playerColor, newState,
                                       isAiThinking, aiTasks, aiLevel)
  /\ pendingPromotion' = NoPending
  /\ UNCHANGED <<screenState, gameMode, playerColor, autoPromote, advisorVars, heapVars, searchVars, scenario,
                 state>>

\* handleHandPieceClick, reachable from the HandPanel of the side to move
\* for the piece types it holds.
handleHandPieceClick(pieceType) ==
  /\ screenState = "game"
  /\ ~PromotionDialogOpen
  /\ gameState.hands[gameState.currentPlayer][pieceType] > 0
  /\ selectedPosition' = NoPosition
  /\ selectedHandPiece' =
       (IF selectedHandPiece = pieceType THEN NoHandPiece ELSE pieceType)
  /\ lastApplied' = NoApplied
  /\ UNCHANGED <<screenState, gameMode, playerColor, isAiThinking, history,
                 lastMove, pendingPromotion, autoPromote, aiTasks, advisorVars, heapVars, searchVars, scenario,
                 state>>

\* resetGame; the button is always shown on the game screen.
resetGame ==
  /\ screenState = "game"
  /\ ~PromotionDialogOpen
  /\ history' = reset(createInitialState)
  /\ selectedPosition' = NoPosition
  /\ selectedHandPiece' = NoHandPiece
  /\ pendingPromotion' = NoPending
  /\ lastMove' = NoMove
  /\ EffectAfterRender(gameMode, playerColor, createInitialState,
                       isAiThinking, aiTasks, aiLevel)
  /\ lastApplied' = NoApplied
  /\ UNCHANGED <<screenState, gameMode, playerColor, autoPromote, advisorVars, heapVars, searchVars, scenario,
                 state>>

\* handleUndo; its button is disabled unless canUndoTwice and no AI move
\* is being computed.
handleUndo ==
  /\ screenState = "game"
  /\ ~PromotionDialogOpen
  /\ canUndoTwice(history)
  /\ ~isAiThinking
  /\ history' = undoTwice(history)
  /\ selectedPosition' = NoPosition
  /\ selectedHandPiece' = NoHandPiece
  /\ pendingPromotion' = NoPending
  /\ lastMove' = NoMove
  /\ EffectAfterRender(gameMode, playerColor, undoTwice(history).present,
                       isAiThinking, aiTasks, aiLevel)
  /\ lastApplied' = NoApplied
  /\ UNCHANGED <<screenState, gameMode, playerColor, autoPromote, advisorVars, heapVars, searchVars, scenario,
                 state>>

handleBackToHome ==
  /\ screenState = "game"
  /\ ~PromotionDialogOpen
  /\ screenState' = "home"
  /\ history' = reset(createInitialState)
  /\ selectedPosition' = NoPosition
  /\ selectedHandPiece' = NoHandPiece
  /\ pendingPromotion' = NoPending
  /\ lastMove' = NoMove
  /\ EffectAfterRender(gameMode, playerColor, createInitialState, FALSE,
                       aiTasks, aiLevel)
  /\ lastApplied' = NoApplied
  /\ UNCHANGED <<gameMode, playerColor, autoPromote, advisorVars, heapVars, searchVars, scenario, state>>

\* The auto-promote switch of the settings dialog.
onSettingsChange ==
  /\ screenState = "game"
  /\ ~PromotionDialogOpen
  /\ autoPromote' = ~autoPromote
  /\ lastApplied' = NoApplied
  /\ UNCHANGED <<screenState, gameMode, playerColor, isAiThinking, history,
                 selectedPosition, selectedHandPiece, lastMove,
                 pendingPromotion, aiTasks, advisorVars, heapVars, searchVars, scenario, state>>

(***************************************************************************)
(* ai/index.ts and the resumption of executeAiMove                          *)
(***************************************************************************)
\* What thinkMove(state, level) can resolve to: null when the state has no
\* legal move, otherwise an element of getAllLegalMoves(state) (the random
\* chooser of the beginner level can return each of them).  The moves
\* followed are those between the squares of AppFocus.
thinkMove(st) ==
  IF NoLegalMoves(st)
    THEN {NoMove}
    ELSE UNION { {m \in Range(getLegalMovesForPiece(st.board, from,
                                                    st.currentPlayer)) :
                    m.to \in AppFocus} : from \in AppFocus }
         \cup
         { DropAction(to, HandPieceTypes[k]) :
             <<to, k>> \in
               { d \in AppFocus \X DOMAIN HandPieceTypes :
                   isLegalDrop(st.board, DropAction(d[1], HandPieceTypes[d[2]]),
                               st.currentPlayer, st.hands[st.currentPlayer]) } }

Remove(seq, i) == SubSeq(seq, 1, i - 1) \o SubSeq(seq, i + 1, Len(seq))

\* OPENAI_API_KEY.length > 0: the build that is given a key, the one in
\* which thinkMove calls selectMultiStageMove.
isLLMConfigured == TRUE

RecentMovesCap == 10

MaxRecentMoves == 2

\* What the advisor's reply can be to the final selection: "error" is a
\* failed call or a reply without a usable index, "chosen" a reply with a
\* valid selectedIndex and a plan.
AdvisorReplies(level) ==
  IF isLLMConfigured /\ level = "advanced" THEN {"error", "chosen"}
  ELSE {"error"}

\* selectAdvancedMove on strategicMemory: currentPlan is assigned from a
\* chosen reply, and the decided move is pushed on recentMoves, whose
\* oldest entry is shifted out above the cap.
recordAdvancedMove(memory, st, advice) ==
  LET pushed == Append(memory.recentMoves, st.moveCount + 1)
  IN [currentPlan |-> IF advice = "chosen" THEN "plan"
                      ELSE memory.currentPlan,
      recentMoves |-> IF Len(pushed) > RecentMovesCap THEN Tail(pushed)
                      ELSE pushed]

\* strategicMemory after thinkMove(st, level): selectMultiStageMove returns
\* null before anything else when there is no legal move, and of the levels
\* followed only 'advanced' writes the memory.
MemoryAfterThinking(memory, st, level, advice) ==
  IF isLLMConfigured /\ ~NoLegalMoves(st) /\ level = "advanced"
    THEN recordAdvancedMove(memory, st, advice)
    ELSE memory

\* executeAiMove from its first await to its end, for the suspended call i:
\* everything it reads (gameState, board, currentPlayer, playerColor,
\* executeMoveWithPromotion, executeDrop) is of the closure it started in.
\* `random` is the outcome of Math.random() > 0.2.
executeAiMove(i, aiResult, random, advice) ==
  LET closure == aiTasks[i].gameState
      player == closure.currentPlayer
      rest == Remove(aiTasks, i)
  IN /\ strategicMemory' = MemoryAfterThinking(strategicMemory, closure,
                                               aiTasks[i].aiLevel, advice)
     /\ Len(strategicMemory'.recentMoves) <= MaxRecentMoves
     /\ IF aiResult = NoMove
          THEN LET newState ==
                     [closure EXCEPT
                        !.result = GameResult("checkmate",
                                              aiTasks[i].playerColor, Undefined)]
               IN /\ Len(history.past) < PastBound
                  /\ history' = setGameState(history, newState)
                  /\ EffectAfterRender(gameMode, playerColor, newState, FALSE,
                                       rest, aiLevel)
                  /\ lastApplied' = NoApplied
                  /\ UNCHANGED <<lastMove, selectedPosition,
                                 selectedHandPiece>>
          ELSE IF aiResult.type = "move"
            THEN LET canProm == MoveCanPromote(closure.board, aiResult.from,
                                               aiResult.to, player)
                     mustProm == MoveMustPromote(closure.board, aiResult.from,
                                                 aiResult.to, player)
                     shouldPromote == mustProm \/ (canProm /\ random)
                     newState == executeMoveWithPromotion(closure,
                                   aiResult.from, aiResult.to, shouldPromote)
                 IN /\ ~ExecuteMoveThrows(closure, aiResult.from, aiResult.to)
                    /\ CommitMove(closure, newState,
                                  BuildMoveAction(closure, aiResult.from,
                                                  aiResult.to, shouldPromote))
                    /\ EffectAfterRender(gameMode, playerColor, newState,
                                         FALSE, rest, aiLevel)
            ELSE LET newState == executeDrop(closure, aiResult.piece,
                                             aiResult.to)
                 IN /\ CommitMove(closure, newState,
                                  DropAction(aiResult.to, aiResult.piece))
                    /\ EffectAfterRender(gameMode, playerColor, newState,
                                         FALSE, rest, aiLevel)
     /\ UNCHANGED <<screenState, gameMode, playerColor, pendingPromotion,
                    autoPromote, aiLevel, heapVars, searchVars, scenario, state>>

Init ==
  /\ InitApp
  /\ InitHeap
  /\ scenario = 1
  /\ state = ScenarioState(1)

Next ==
  \/ \E homeSettings \in HomeSettings : handleStartGame(homeSettings)
  \/ \E position \in AppFocus :
       \/ ClickDrop(position)
       \/ ClickDropCancel(position)
       \/ ClickSelect(position)
       \/ ClickMove(position)
       \/ ClickMoveDialog(position)
       \/ ClickMoveCancel(position)
  \/ \E promote \in BOOLEAN : handlePromotionChoice(promote)
  \/ \E k \in DOMAIN HandPieceTypes : handleHandPieceClick(HandPieceTypes[k])
  \/ resetGame
  \/ handleUndo
  \/ handleBackToHome
  \/ onSettingsChange
  \/ \E i \in DOMAIN aiTasks, random \in BOOLEAN :
       \E aiResult \in thinkMove(aiTasks[i].gameState),
          advice \in AdvisorReplies(aiTasks[i].aiLevel) :
         executeAiMove(i, aiResult, random, advice)

Spec == Init /\ [][Next]_vars

(***************************************************************************)
(* The application played against the AI at the levels 'beginner' and      *)
(* 'advanced', by a user who starts, resets and leaves games and moves the  *)
(* pawns of files 7 and 3.                                                  *)
(***************************************************************************)
AdvisorHomeSettings ==
  { [gameMode |-> "pvc", playerColor |-> color, aiLevel |-> level] :
      color \in Players, level \in {"beginner", "advanced"} }

AdvisorFocus == { Pos(7, 7), Pos(7, 6), Pos(3, 3), Pos(3, 4) }

NextAdvisor ==
  \/ \E homeSettings \in AdvisorHomeSettings : handleStartGame(homeSettings)
  \/ \E position \in AdvisorFocus :
       \/ ClickSelect(position)
       \/ ClickMove(position)
  \/ resetGame
  \/ handleUndo
  \/ handleBackToHome
  \/ \E i \in DOMAIN aiTasks, random \in BOOLEAN :
       \E aiResult \in thinkMove(aiTasks[i].gameState),
          advice \in AdvisorReplies(aiTasks[i].aiLevel) :
         executeAiMove(i, aiResult, random, advice)

SpecAdvisor == Init /\ [][NextAdvisor]_vars

(***************************************************************************)
(* The application followed through a long game: the user starts and       *)
(* leaves games against the AI and then plays a two-player game in which    *)
(* both kings step forward and back until the position repeats.             *)
(***************************************************************************)
LongFocus == { Pos(5, 9), Pos(5, 8), Pos(5, 1), Pos(5, 2) }

InitLong ==
  /\ InitApp
  /\ InitHeap
  /\ scenario = 0
  /\ state = ScenarioState(1)

NextLong ==
  \/ \E homeSettings \in HomeSettings : handleStartGame(homeSettings)
  \/ \E position \in LongFocus :
       \/ ClickSelect(position)
       \/ ClickMove(position)
  \/ handleUndo
  \/ handleBackToHome
  \/ \E i \in DOMAIN aiTasks, random \in BOOLEAN :
       \E aiResult \in thinkMove(aiTasks[i].gameState),
          advice \in AdvisorReplies(aiTasks[i].aiLevel) :
         executeAiMove(i, aiResult, random, advice)

SpecLong == InitLong /\ [][NextLong]_vars

(***************************************************************************)
(* Properties of the application                                            *)
(***************************************************************************)
\* The GameStates the application holds: the undo stack, the present and
\* the redo stack of useGameHistory.
HeldStates ==
  Range(history.past) \cup {history.present} \cup Range(history.future)

\* C4: every move the application applies (human board move, directly, by
\* auto-promote or through the promotion dialog, human drop, AI move with
\* the promote flag App recomputes) is a member of getAllLegalMoves of the
\* state it is applied to.
C4_AppliedMoveIsLegal ==
  lastApplied.move.type # "null" =>
    IsLegalMoveOf(lastApplied.gameState, lastApplied.move)

\* C15: every step that starts a new game, handleStartGame from the home
\* screen as well as resetGame, leaves the advisor's strategicMemory at its
\* empty value, so that the first AI move of the new game is computed from
\* an empty memory.
C15_MemoryResetAtNewGame ==
  [][ ((\E homeSettings \in AdvisorHomeSettings :
          handleStartGame(homeSettings)) \/ resetGame)
      => strategicMemory' = EmptyStrategicMemory ]_vars

\* C16: terminal results are absorbing for play: once the present
\* GameState's result is not 'ongoing', the present state changes only by
\* an undo, a reset, a return to the home screen or the start of a new
\* game, never by a click on the board or an AI turn.
C16_TerminalAbsorbing ==
  [][ (gameState.result.type # "ongoing" /\ history'.present # gameState)
      => \/ handleUndo
         \/ resetGame
         \/ handleBackToHome
         \/ \E homeSettings \in HomeSettings : handleStartGame(homeSettings)
    ]_vars

\* C9: every GameState the game reaches, the initial one and each one
\* produced by a relocation or a drop, has positionHistory.length =
\* moveCount + 1.
C9_PositionHistoryLength ==
  \A s \in HeldStates : Len(s.positionHistory) = s.moveCount + 1

\* A game in which a relocation and a drop have both been applied.
C9_Witness ==
  /\ gameState.moveCount >= 2
  /\ \E k \in DOMAIN gameState.moveHistory :
       gameState.moveHistory[k].type = "drop"
  /\ \E k \in DOMAIN gameState.moveHistory :
       gameState.moveHistory[k].type = "move"


(***************************************************************************)
(* The copying functions called on boards and hands that a caller (the      *)
(* history, the root of a search) keeps holding.  Each step calls one       *)
(* function on one held object and then holds the result as well.           *)
(***************************************************************************)
MaxHeld == 4

HeapFocus == { Pos(7, 7), Pos(7, 6), Pos(8, 8), Pos(2, 2) }

HeapHandPieces == { "pawn", "rook" }

HeapEnabled == Len(held.boards) + Len(held.hands) < MaxHeld

HoldBoard(a, board) ==
  [held EXCEPT !.boards = Append(@, [addr |-> a, value |-> board])]

HoldHand(a, hand) ==
  [held EXCEPT !.hands = Append(@, [addr |-> a, value |-> hand])]

HeapApplyMove(k, from, to, promote) ==
  LET move == MoveAction(from, to, getPieceAt(held.boards[k].value, from).type,
                         Undefined, promote)
      result == applyMoveOnHeap(heap, held.boards[k].addr, move)
  IN /\ HeapEnabled
     /\ heap' = result.heap
     /\ held' = HoldBoard(result.addr,
                          applyMove(held.boards[k].value, move).newBoard)
     /\ UNCHANGED <<appVars, scenario, state, searchVars>>

HeapApplyDrop(k, to, pieceType, player) ==
  LET drop == DropAction(to, pieceType)
      result == applyDropOnHeap(heap, held.boards[k].addr, drop, player)
  IN /\ HeapEnabled
     /\ heap' = result.heap
     /\ held' = HoldBoard(result.addr,
                          applyDrop(held.boards[k].value, drop, player))
     /\ UNCHANGED <<appVars, scenario, state, searchVars>>

\* The caller passes null or a Piece object it has just created.
HeapSetPieceAt(k, pos, piece) ==
  LET object == AllocPiece(heap, piece)
      result == IF piece = Null
                  THEN setPieceAt(heap, held.boards[k].addr, pos, NullRef)
                  ELSE setPieceAt(object.heap, held.boards[k].addr, pos,
                                  object.addr)
      to == positionToIndex(pos)
  IN /\ HeapEnabled
     /\ heap' = result.heap
     /\ held' = HoldBoard(result.addr,
                          [held.boards[k].value EXCEPT
                             ![to.rowIndex][to.colIndex] = piece])
     /\ UNCHANGED <<appVars, scenario, state, searchVars>>

HeapAddToHand(k, pieceType) ==
  LET result == addToHandOnHeap(heap, held.hands[k].addr, pieceType)
  IN /\ HeapEnabled
     /\ heap' = result.heap
     /\ held' = HoldHand(result.addr, addToHand(held.hands[k].value, pieceType))
     /\ UNCHANGED <<appVars, scenario, state, searchVars>>

HeapRemoveFromHand(k, pieceType) ==
  LET result == removeFromHandOnHeap(heap, held.hands[k].addr, pieceType)
  IN /\ HeapEnabled
     /\ ~RemoveFromHandThrows(heap.hands[held.hands[k].addr], pieceType)
     /\ heap' = result.heap
     /\ held' = HoldHand(result.addr,
                         removeFromHand(held.hands[k].value, pieceType))
     /\ UNCHANGED <<appVars, scenario, state, searchVars>>

NextHeap ==
  \/ \E k \in DOMAIN held.boards, from \in HeapFocus, to \in HeapFocus,
        promote \in BOOLEAN :
       HeapApplyMove(k, from, to, promote)
  \/ \E k \in DOMAIN held.boards, to \in HeapFocus,
        pieceType \in HeapHandPieces, player \in Players :
       HeapApplyDrop(k, to, pieceType, player)
  \/ \E k \in DOMAIN held.boards, pos \in HeapFocus,
        piece \in {Null, createPiece("pawn", "sente")} :
       HeapSetPieceAt(k, pos, piece)
  \/ \E k \in DOMAIN held.hands, pieceType \in HeapHandPieces :
       HeapAddToHand(k, pieceType)
  \/ \E k \in DOMAIN held.hands, pieceType \in HeapHandPieces :
       HeapRemoveFromHand(k, pieceType)

SpecHeap == Init /\ [][NextHeap]_vars

\* C13: applyMove, applyDrop, setPieceAt, addToHand and removeFromHand
\* leave the board or hand they are given as it was: every held board and
\* hand still has the value it had when it was handed over (which, for a
\* result, is the value the function computes), and no two held boards
\* share a row array, whatever calls were made on them since.
C13_HeldObjectsUnchanged ==
  /\ \A k \in DOMAIN held.boards :
       BoardAt(heap, held.boards[k].addr) = held.boards[k].value
  /\ \A k \in DOMAIN held.hands :
       heap.hands[held.hands[k].addr] = held.hands[k].value
  /\ \A j \in DOMAIN held.boards, k \in DOMAIN held.boards :
       j # k => Range(heap.boards[held.boards[j].addr])
                  \cap Range(heap.boards[held.boards[k].addr]) = {}

\* C13 witness: a capture with promotion was applied to the initial board,
\* and a second function was then called on a held board.
C13_Witness ==
  /\ Len(held.boards) = 3
  /\ getPieceAt(held.boards[2].value, Pos(2, 2)) =
       [type |-> "promotedBishop", owner |-> "sente", isPromoted |-> TRUE]
  /\ held.boards[3].value # held.boards[2].value
  /\ held.boards[3].value # held.boards[1].value

(***************************************************************************)
(* Properties of the search (checked under SpecRules)                       *)
(***************************************************************************)
\* The remaining depths with which minimax visits a node.
NodeDepths == 0..4

\* The smallest magnitude the mate formulas give at these depths.
MateFloor == 1000000 - 5 * 10000

\* C17: at a node visited by minimax where the side to move has no legal
\* move, the returned score is a mate score if that side is in check
\* (negative when the maximizing side is to move, positive when the
\* minimizing side is, and strictly better for the mating side at a larger
\* remaining depth), and exactly 0 if that side is not in check.
C17_NoMoveNodeScore ==
  \A engine \in Engines, depth \in NodeDepths :
    NoLegalMoves(state) =>
      LET maximizing == state.currentPlayer = "sente"
          score(d) == minimax(engine, state, d, -Infinity, Infinity,
                              maximizing, 0).score
      IN IF isInCheck(state.board, state.currentPlayer)
           THEN /\ IF maximizing THEN score(depth) <= -MateFloor
                   ELSE score(depth) >= MateFloor
                /\ \A nearer \in NodeDepths :
                     nearer > depth =>
                       IF maximizing THEN score(nearer) < score(depth)
                       ELSE score(nearer) > score(depth)
           ELSE score(depth) = 0

(***************************************************************************)
(* The searches of the select functions, run on the positions of a game:    *)
(* selectIntermediateMove and its siblings make a counter object, call      *)
(* minimax on the GameState they were given with the full window and keep   *)
(* what it returns.                                                         *)
(***************************************************************************)
\* Runs recorded per position and depths searched.  A search deeper than
\* one ply is run where the side to move has at most DeepSearchMoves moves.
MaxRuns == 2

MaxSearchDepth == 2

DeepSearchMoves == 8

\* Plies played from each starting position.
MaxPlySearchChase == 5

MaxPlySearchEdge == 1

SearchScenarios == {3, 5}

SearchMaxPly(n) ==
  CASE n = 3 -> MaxPlySearchChase
    [] n = 5 -> MaxPlySearchEdge

\* The side the computer plays: gote against the checking rook, sente on
\* the edge file.
EngineSide(n) ==
  CASE n = 3 -> "gote"
    [] n = 5 -> "sente"

SearchFocus(n) ==
  CASE n = 3 -> Focus(3)
    [] n = 5 -> { Pos(1, 8), Pos(1, 7), Pos(1, 5), Pos(3, 3), Pos(2, 4) }

\* A counter that outlives the call: the count the last search left behind.
nodesSearchedKept(runs) ==
  IF runs = <<>> THEN 0 ELSE runs[Len(runs)].nodes

\* const nodesSearched = { count: 0 }
nodesSearchedAtStart(runs) == 0

InitSearch ==
  /\ InitApp
  /\ InitHeap
  /\ scenario \in SearchScenarios
  /\ state = ScenarioState(scenario)

SearchMove(from, to, promote) ==
  /\ state.result.type = "ongoing"
  /\ state.moveCount < SearchMaxPly(scenario)
  /\ getPieceAt(state.board, from) # Null
  /\ getPieceAt(state.board, from).owner = state.currentPlayer
  /\ BuildMoveAction(state, from, to, promote) \in
       Range(getLegalMovesForPiece(state.board, from, state.currentPlayer))
  /\ state' = executeMoveWithPromotion(state, from, to, promote)
  /\ searchRuns' = <<>>
  /\ UNCHANGED <<appVars, scenario, heapVars, thought, quiesced>>

\* What a run leaves on record.
SearchRun(engine, depth, result) ==
  [engine |-> engine, depth |-> depth, score |-> result.score,
   move |-> result.move, nodes |-> result.nodes]

RunSearch(engine, depth) ==
  /\ state.result.type = "ongoing"
  /\ Len(searchRuns) < MaxRuns
  /\ state.currentPlayer = EngineSide(scenario)
  /\ depth = 1 \/ Len(getAllLegalMoves(state)) <= DeepSearchMoves
  /\ searchRuns # <<>> =>
       engine = searchRuns[1].engine /\ depth = searchRuns[1].depth
  /\ searchRuns' =
       Append(searchRuns,
              SearchRun(engine, depth,
                        minimax(engine, state, depth, -Infinity, Infinity,
                                state.currentPlayer = "sente",
                                nodesSearchedAtStart(searchRuns))))
  /\ UNCHANGED <<appVars, scenario, state, heapVars, thought, quiesced>>

NextSearch ==
  \/ \E from \in SearchFocus(scenario), to \in SearchFocus(scenario),
        promote \in BOOLEAN :
       SearchMove(from, to, promote)
  \/ \E engine \in Engines, depth \in 1..MaxSearchDepth :
       RunSearch(engine, depth)

SpecSearch == InitSearch /\ [][NextSearch]_vars

ExhaustiveBetter(maximizing, first, second) ==
  IF (maximizing /\ second.score > first.score)
     \/ (~maximizing /\ second.score < first.score)
    THEN second ELSE first

RECURSIVE exhaustiveMinimax(_, _, _, _)
\* The best of the moves lo..hi: the first one of the best score.
RECURSIVE ExhaustiveLoop(_, _, _, _, _, _, _)
ExhaustiveLoop(engine, st, moves, lo, hi, depth, maximizing) ==
  IF lo = hi
    THEN [score |-> exhaustiveMinimax(engine, applyMoveToState(st, moves[lo]),
                                      depth - 1, ~maximizing).score,
          move |-> moves[lo]]
    ELSE ExhaustiveBetter(maximizing,
           ExhaustiveLoop(engine, st, moves, lo, (lo + hi) \div 2, depth,
                          maximizing),
           ExhaustiveLoop(engine, st, moves, (lo + hi) \div 2 + 1, hi, depth,
                          maximizing))

ExhaustiveMoves(engine, st, depth, maximizing, moves) ==
  IF Len(moves) = 0
    THEN [score |-> IF isInCheck(st.board, st.currentPlayer)
                      THEN MateScore(engine, depth, maximizing)
                      ELSE 0,
          move |-> [type |-> "null"]]
    ELSE ExhaustiveBetter(maximizing,
           [score |-> IF maximizing THEN -Infinity ELSE Infinity,
            move |-> [type |-> "null"]],
           ExhaustiveLoop(engine, st,
                          SortDescending(moves, OrderKeys(engine, moves)),
                          1, Len(moves), depth, maximizing))

exhaustiveMinimax(engine, st, depth, maximizing) ==
  IF depth = 0
    THEN [score |-> LeafScore(engine, st, -Infinity, Infinity, maximizing,
                              0).score,
          move |-> [type |-> "null"]]
    ELSE ExhaustiveMoves(engine, st, depth, maximizing, getAllLegalMoves(st))

SameScoreAndMove(run, exhaustive) ==
  run.score = exhaustive.score /\ run.move = exhaustive.move

\* C19: started at the root with the window (-Infinity, +Infinity), each
\* minimax implementation returns the root score and the root move of
\* exhaustive minimax over the same ordered move lists whose leaves are
\* valued on the full window: cutoffs and narrowed windows change neither.
C19_CutoffsChangeNothing ==
  \A i \in DOMAIN searchRuns :
    SameScoreAndMove(searchRuns[i],
                     exhaustiveMinimax(searchRuns[i].engine, state,
                                       searchRuns[i].depth,
                                       state.currentPlayer = "sente"))

(***************************************************************************)
(* ai/index.ts, ai/beginner.ts, ai/moveRanking.ts and the selectors of      *)
(* ai/multiStageEngine.ts and ai/intermediate.ts: thinkMove.                *)
(***************************************************************************)
AILevels == {"beginner", "intermediate", "advanced", "llm"}

\* Math.random() takes the values random / RandomGrain, random in Randoms.
RandomGrain == 3

Randoms == 0..(RandomGrain - 1)

\* Math.floor(Math.random() * n), as an index from 1.
RandomIndex(random, n) == (random * n) \div RandomGrain + 1

\* rankMoves of ai/moveRanking.ts: every legal move with its heuristic
\* score, best first.  The score is the ordering key of the search
\* (captures by captured value x 10 - capturing value, promotions + 300).
rankMoves(moves) ==
  SortDescending([i \in 1..Len(moves) |->
                    [move |-> moves[i],
                     score |-> OrderKey("multiStage", moves[i])]],
                 OrderKeys("multiStage", moves))

\* getTopMoves(state, count) from the legal moves of the state on: the
\* `count` best of the ranked moves.
getTopMoves(moves, count) ==
  SubSeq(rankMoves(moves), 1, MathMin(count, Len(moves)))

\* rankedMoves.findIndex(m => JSON.stringify(m.move) ===
\* JSON.stringify(move)), from 1, and 0 for -1.
findIndex(rankedMoves, move) ==
  IF \E i \in DOMAIN rankedMoves : rankedMoves[i].move = move
    THEN CHOOSE i \in DOMAIN rankedMoves :
           /\ rankedMoves[i].move = move
           /\ \A j \in 1..(i - 1) : rankedMoves[j].move # move
    ELSE 0

\* selectIntermediateMove and selectAdvancedMove: the move of minimax, when
\* it is ranked and not ranked first, is spliced out, given the bonus and
\* unshifted.
PreferSpliced(rankedMoves, at, bonus) ==
  IF at > 1
    THEN <<[rankedMoves[at] EXCEPT !.score = @ + bonus]>>
         \o Remove(rankedMoves, at)
    ELSE rankedMoves

\* selectLLMMove: the move of minimax, when it is ranked, is given 1000 and
\* the candidates are sorted again by score.
PreferSorted(rankedMoves, at) ==
  IF at >= 1
    THEN SortDescending(
           [rankedMoves EXCEPT ![at].score = @ + 1000],
           [i \in DOMAIN rankedMoves |->
              rankedMoves[i].score + (IF i = at THEN 1000 ELSE 0)])
    ELSE rankedMoves

PreferMinimax(level, rankedMoves, move) ==
  IF move = NoMove THEN rankedMoves
  ELSE IF level = "llm"
    THEN PreferSorted(rankedMoves, findIndex(rankedMoves, move))
  ELSE PreferSpliced(rankedMoves, findIndex(rankedMoves, move),
                     IF level = "intermediate" THEN 500 ELSE 800)

\* The depth of the search and the number of candidates of each level.
LevelDepth(level) ==
  CASE level = "intermediate" -> 2
    [] level = "advanced" -> 3
    [] level = "llm" -> 4

TopCount(level) ==
  CASE level = "beginner" -> 10
    [] level = "intermediate" -> 15
    [] level = "advanced" -> 20
    [] level = "llm" -> 25

\* What the advisor answers to the call of the final selection.  A reply is
\* the rejection of fetch ("throws"), a response that is not ok
\* ("httpError"), a text without an object ("noJson"), an object that
\* JSON.parse rejects ("malformed"), or an object whose selectedIndex is not
\* a number ("nonNumeric") or is the number halves / 2 ("index"); the
\* reasoning it gives is a text or, for "numberReasoning", a number.
BigIndex == 100

IndexHalves == {-2, 0, 2, 3, 4, 2 * BigIndex}

AdvisorAnswers ==
  { [kind |-> k, halves |-> 0] :
      k \in {"throws", "httpError", "noJson", "malformed", "nonNumeric"} }
  \cup { [kind |-> "index", halves |-> h] : h \in IndexHalves }
  \cup { [kind |-> "numberReasoning", halves |-> 2] }

\* What the advisor answers to the call of the position analysis: an object
\* of the shape asked for, an object whose threats is null, or no answer.
AnalysisAnswers == {"analysed", "shapeless", "failed"}

HasIndex(advice) == advice.kind \in {"index", "numberReasoning"}

\* index = (parsed.selectedIndex || 1) - 1, in halves.
IndexOf(advice) == (IF advice.halves = 0 THEN 2 ELSE advice.halves) - 2

\* The reply was parsed and index >= 0 && index < rankedMoves.length.
IndexAccepted(advice, length) ==
  HasIndex(advice) /\ IndexOf(advice) >= 0 /\ IndexOf(advice) < 2 * length

\* The index selectedMove is read at, in halves: that of rankedMoves[0]
\* unless the advisor's is accepted.
selectedIndex(advice, length) ==
  IF IndexAccepted(advice, length) THEN IndexOf(advice) ELSE 0

\* The call of the final selection is reached and answered with an object
\* that is parsed: selectAdvancedMove throws before it on a shapeless
\* analysis (positionAnalysis.threats.join inside the try).
FinalAdvice(level, analysis, advice) ==
  IF level = "advanced" /\ analysis = "shapeless"
    THEN [kind |-> "throws", halves |-> 0]
    ELSE advice

\* A selector of multiStageEngine.ts from its ranked candidates on: the
\* move it returns, or "throws" where a TypeError leaves it (selectedMove is
\* rankedMoves[index] of an index that is no integer, reasoning.slice of a
\* number, positionAnalysis.threats.length of null).
Returned(move) == [kind |-> "move", move |-> move]

NoResult == [kind |-> "null"]

Throws == [kind |-> "throws"]

SelectFrom(level, analysis, advice, random, rankedMoves) ==
  IF Len(rankedMoves) = 0 THEN Throws
  ELSE IF level = "beginner"
    THEN Returned(rankedMoves[RandomIndex(random,
                                          MathMin(3, Len(rankedMoves)))].move)
  ELSE IF level = "llm" /\ analysis = "shapeless" THEN Throws
  ELSE IF selectedIndex(advice, Len(rankedMoves)) % 2 # 0 THEN Throws
  ELSE IF level # "intermediate" /\ advice.kind = "numberReasoning"
    THEN Throws
  ELSE Returned(rankedMoves[selectedIndex(advice, Len(rankedMoves)) \div 2
                            + 1].move)

\* The depth a search is followed to: that of the source up to
\* MaxSearchDepth where the state has at most DeepSearchMoves legal moves,
\* and 1 elsewhere.
FollowedDepth(moves, depth) ==
  IF Len(moves) <= DeepSearchMoves THEN MathMin(depth, MaxSearchDepth) ELSE 1

\* The search a selector of `engine` starts with: minimax(state, depth,
\* -Infinity, Infinity, isMaximizing, { count: 0 }).
SelectorSearch(engine, st, moves, depth) ==
  minimax(engine, st, FollowedDepth(moves, depth), -Infinity, Infinity,
          st.currentPlayer = "sente", 0)

\* selectMultiStageMove(state, level) from the legal moves of the state
\* on; `found` is what the search of the level's selector returns.
selectMultiStageMove(moves, level, analysis, advice, random, found) ==
  IF Len(moves) = 0 THEN NoResult
  ELSE IF level = "beginner"
    THEN SelectFrom(level, analysis, advice, random,
                    getTopMoves(moves, TopCount(level)))
  ELSE SelectFrom(level, analysis, FinalAdvice(level, analysis, advice),
                  random,
                  PreferMinimax(level, getTopMoves(moves, TopCount(level)),
                                found.move))

\* selectBeginnerMove of ai/beginner.ts.  `lucky` is Math.random() < 0.8:
\* one of the captures of at least 0.8 of the best captured value, and
\* otherwise the move whose random score is the highest, any of the moves.
BeginnerSorted(captureMoves) ==
  SortDescending(captureMoves,
                 [i \in 1..Len(captureMoves) |->
                    PIECE_VALUES[captureMoves[i].captured]])

BeginnerTopMoves(captureMoves, topValue) ==
  SelectSeq(captureMoves,
            LAMBDA m : PIECE_VALUES[m.captured] * 10 >= topValue * 8)

BeginnerCaptures(moves, lucky, random, captureMoves) ==
  IF Len(captureMoves) > 0 /\ lucky
    THEN LET topMoves ==
               BeginnerTopMoves(captureMoves,
                 PIECE_VALUES[captureMoves[1].captured])
         IN topMoves[RandomIndex(random, Len(topMoves))]
    ELSE moves[RandomIndex(random, Len(moves))]

selectBeginnerMove(moves, lucky, random) ==
  IF Len(moves) = 0 THEN NoResult
  ELSE Returned(BeginnerCaptures(moves, lucky, random,
                  BeginnerSorted(SelectSeq(moves, IsCapture))))

\* selectIntermediateMove and selectAdvancedMove of ai/intermediate.ts;
\* `found` is what their search returns.
selectTraditionalMove(moves, random, found) ==
  IF Len(moves) = 0 THEN NoResult
  ELSE IF found.move = NoMove
    THEN Returned(moves[RandomIndex(random, Len(moves))])
  ELSE Returned(found.move)

\* The switch of thinkMove after the try.
Fallback(moves, level, lucky, random, found) ==
  IF level = "beginner" THEN selectBeginnerMove(moves, lucky, random)
  ELSE selectTraditionalMove(moves, random, found)

\* A thinkMove whose catch gives up: null instead of the switch.
ThinkAfterGivingUp(moves, level, lucky, random, advised, found) ==
  [advised |-> advised.kind,
   result |-> IF advised.kind = "move" THEN advised ELSE NoResult]

\* thinkMove from the settlement of selectMultiStageMove on: a result is
\* returned, null and a rejection go on to the switch.  `advised` is what
\* selectMultiStageMove settled with.
ThinkAfter(moves, level, lucky, random, advised, found) ==
  [advised |-> advised.kind,
   result |-> IF advised.kind = "move" THEN advised
              ELSE Fallback(moves, level, lucky, random, found)]

\* thinkMove(state, level) with what the advisor and Math.random answer;
\* `advisedFound` and `found` are what the searches of the selectors of
\* multiStageEngine.ts and of intermediate.ts return.
thinkMoveCall(moves, level, input, advisedFound, found) ==
  IF isLLMConfigured
    THEN ThinkAfter(moves, level, input.lucky, input.random,
           selectMultiStageMove(moves, level, input.analysis, input.advice,
                                input.random, advisedFound),
           found)
    ELSE [advised |-> "unasked",
          result |-> Fallback(moves, level, input.lucky, input.random,
                              found)]

\* strategicMemory after the call: selectAdvancedMove and selectLLMMove
\* assign currentPlan when the advisor's index is accepted and push the
\* decided move when they reach their end.
RecentMovesCapOf(level) == IF level = "llm" THEN 15 ELSE RecentMovesCap

PlanAssigned(memory, accepted) ==
  IF accepted THEN [memory EXCEPT !.currentPlan = "plan"] ELSE memory

MovePushed(memory, st, cap) ==
  [memory EXCEPT
     !.recentMoves =
       IF Len(memory.recentMoves) + 1 > cap
         THEN Tail(Append(memory.recentMoves, st.moveCount + 1))
         ELSE Append(memory.recentMoves, st.moveCount + 1)]

MemoryAfterCall(memory, st, moves, called) ==
  IF called.advised \in {"unasked", "null"}
     \/ called.level \in {"beginner", "intermediate"}
    THEN memory
  ELSE IF called.level = "llm" /\ called.analysis = "shapeless" THEN memory
  ELSE IF called.advised = "throws"
    THEN PlanAssigned(memory,
           IndexAccepted(FinalAdvice(called.level, called.analysis,
                                     called.advice),
                         MathMin(TopCount(called.level), Len(moves))))
  ELSE MovePushed(
         PlanAssigned(memory,
           IndexAccepted(FinalAdvice(called.level, called.analysis,
                                     called.advice),
                         MathMin(TopCount(called.level), Len(moves)))),
         st, RecentMovesCapOf(called.level))

(***************************************************************************)
(* thinkMove called on the positions of a game: from the corner position    *)
(* and from the position of the checking rook a few moves are played, and   *)
(* on each state reached thinkMove is called once, at any level, with any   *)
(* answer of the advisor and of Math.random.                                *)
(***************************************************************************)
MaxPlyThinkCorner == 1

MaxPlyThinkChase == 2

ThinkScenarios == {2, 3}

ThinkMaxPly(n) ==
  CASE n = 2 -> MaxPlyThinkCorner
    [] n = 3 -> MaxPlyThinkChase

ThinkFocus(n) ==
  CASE n = 2 -> { Pos(1, 2), Pos(2, 2) }
    [] n = 3 -> Focus(3)

\* The answers that matter to each level: the beginner's selectors consult
\* Math.random only, the others the advisor, and selectAdvancedMove and
\* selectLLMMove ask for the analysis first.
ThinkInputs(level) ==
  IF level = "beginner"
    THEN { [analysis |-> "analysed",
            advice |-> [kind |-> "noJson", halves |-> 0],
            lucky |-> lucky, random |-> random] :
             lucky \in BOOLEAN, random \in Randoms }
    ELSE { [analysis |-> analysis, advice |-> advice, lucky |-> TRUE,
            random |-> 0] :
             analysis \in (IF level = "intermediate" THEN {"analysed"}
                           ELSE AnalysisAnswers),
             advice \in AdvisorAnswers }

InitThink ==
  /\ InitApp
  /\ InitHeap
  /\ scenario \in ThinkScenarios
  /\ state = ScenarioState(scenario)

ThinkPlayEnabled ==
  /\ state.result.type = "ongoing"
  /\ state.moveCount < ThinkMaxPly(scenario)

ThinkPlayMove(from, to, promote) ==
  /\ ThinkPlayEnabled
  /\ getPieceAt(state.board, from) # Null
  /\ getPieceAt(state.board, from).owner = state.currentPlayer
  /\ BuildMoveAction(state, from, to, promote) \in
       Range(getLegalMovesForPiece(state.board, from, state.currentPlayer))
  /\ state' = executeMoveWithPromotion(state, from, to, promote)
  /\ thought' = NoThought
  /\ UNCHANGED <<appVars, scenario, heapVars, searchRuns, quiesced>>

ThinkPlayDrop(pieceType, to) ==
  /\ ThinkPlayEnabled
  /\ isLegalDrop(state.board, DropAction(to, pieceType), state.currentPlayer,
                 state.hands[state.currentPlayer])
  /\ state' = executeDrop(state, pieceType, to)
  /\ thought' = NoThought
  /\ UNCHANGED <<appVars, scenario, heapVars, searchRuns, quiesced>>

\* What a call leaves on record: the level, the answers, what
\* selectMultiStageMove settled with and what thinkMove returned.
Thought(level, input, called) ==
  [level |-> level, analysis |-> input.analysis, advice |-> input.advice,
   lucky |-> input.lucky, random |-> input.random,
   advised |-> called.advised, result |-> called.result]

CallWith(level, moves, advisedFound, found) ==
  /\ \E input \in ThinkInputs(level) :
       thought' = Thought(level, input,
                          thinkMoveCall(moves, level, input, advisedFound,
                                        found))
  /\ strategicMemory' = MemoryAfterCall(strategicMemory, state, moves,
                                        thought')
  /\ Len(strategicMemory'.recentMoves) <= MaxRecentMoves

CallThinkMove(level) ==
  /\ thought = NoThought
  /\ CallWith(level, getAllLegalMoves(state),
              SelectorSearch("multiStage", state, getAllLegalMoves(state),
                             IF level = "beginner" THEN 1
                             ELSE LevelDepth(level)),
              SelectorSearch("intermediate", state, getAllLegalMoves(state),
                             IF level = "intermediate" THEN 2 ELSE 3))
  /\ UNCHANGED <<screenState, gameMode, playerColor, isAiThinking, history,
                 selectedPosition, selectedHandPiece, lastMove,
                 pendingPromotion, autoPromote, aiTasks, lastApplied, aiLevel,
                 scenario, state, heapVars, searchRuns, quiesced>>

NextThink ==
  \/ \E from \in ThinkFocus(scenario), to \in ThinkFocus(scenario),
        promote \in BOOLEAN :
       ThinkPlayMove(from, to, promote)
  \/ \E k \in DOMAIN HandPieceTypes, to \in ThinkFocus(scenario) :
       ThinkPlayDrop(HandPieceTypes[k], to)
  \/ \E level \in AILevels : CallThinkMove(level)

SpecThink == InitThink /\ [][NextThink]_vars

PromotableKinds == {"rook", "bishop", "silver", "knight", "lance", "pawn"}

PromotionZone(owner) == IF owner = "sente" THEN 1..3 ELSE 7..9

\* The relocation is eligible to promote.
Eligible(pieceType, from, to, owner) ==
  /\ pieceType \in PromotableKinds
  /\ from.row \in PromotionZone(owner) \/ to.row \in PromotionZone(owner)

\* The relocation from `from` to `to` leaves the mover's king unattacked.
SelfCheckSafe(board, from, to, owner) ==
  ~isInCheck(applyMove(board, MoveAction(from, to,
                                         getPieceAt(board, from).type,
                                         Undefined, FALSE)).newBoard,
             owner)

\* The promote flags of the moves returned to a destination.
FlagsTo(moves, to) == { m.promote : m \in { x \in Range(moves) : x.to = to } }

\* What getLegalMovesForPiece returns for the piece on square i, and the
\* flags `expected(pieceType, from, to, owner)` names for each self-check-safe
\* destination of its raw moves.
FlagsAsExpected(i, expected(_, _, _, _)) ==
  LET from == SquareOf(i)
      piece == getPieceAt(state.board, from)
  IN piece # Null =>
       /\ \A m \in Range(getLegalMovesForPiece(state.board, from,
                                               piece.owner)) :
            m.promote => Eligible(piece.type, from, m.to, piece.owner)
       /\ \A to \in Range(getRawMoves(state.board, from, piece.type,
                                      piece.owner)) :
            SelfCheckSafe(state.board, from, to, piece.owner) =>
              FlagsTo(getLegalMovesForPiece(state.board, from, piece.owner),
                      to)
              = expected(piece.type, from, to, piece.owner)

FlagsClaimed(pieceType, from, to, owner) ==
  IF Eligible(pieceType, from, to, owner)
     /\ ~ForcedDestination(pieceType, to, owner)
    THEN {TRUE, FALSE}
    ELSE {FALSE}

FlagsAmended(pieceType, from, to, owner) ==
  IF ~Eligible(pieceType, from, to, owner) THEN {FALSE}
  ELSE IF ForcedDestination(pieceType, to, owner) THEN {TRUE}
  ELSE {TRUE, FALSE}

\* C21 as stated: a move with promote = TRUE is returned only for a
\* promotable, unpromoted piece whose origin or destination lies in the
\* mover's promotion zone; each such self-check-safe destination that is no
\* forced promotion gets both the promoting and the unpromoting move, and
\* every other destination only the unpromoting move.
C21_PromotionPairs == \A i \in Indices : FlagsAsExpected(i, FlagsClaimed)

\* C21 amended: the same, except that a destination of a forced promotion
\* gets the promoting move only.
C21_PromotionPairsOrForced ==
  \A i \in Indices : FlagsAsExpected(i, FlagsAmended)

\* C21 witness: a piece of the side to move has an eligible, unforced,
\* self-check-safe destination, returned with both flags.
C21_Witness ==
  \E i \in Indices :
    LET from == SquareOf(i)
        piece == getPieceAt(state.board, from)
    IN /\ piece # Null
       /\ piece.owner = state.currentPlayer
       /\ \E to \in Range(getRawMoves(state.board, from, piece.type,
                                      piece.owner)) :
            /\ Eligible(piece.type, from, to, piece.owner)
            /\ ~ForcedDestination(piece.type, to, piece.owner)
            /\ from.row \notin PromotionZone(piece.owner)
            /\ SelfCheckSafe(state.board, from, to, piece.owner)
            /\ FlagsTo(getLegalMovesForPiece(state.board, from, piece.owner),
                       to) = {TRUE, FALSE}


(***************************************************************************)
(* quiescenceSearch called on its own                                       *)
(*                                                                         *)
(* minimax hands quiescenceSearch the state of a leaf, the window the      *)
(* search has narrowed so far and depth 0; quiescenceSearch calls itself   *)
(* with depth + 1.  The calls below are made on the positions of three     *)
(* scenarios, with windows placed around the stand-pat evaluation of the   *)
(* position and with the depths of a first call and of the calls next to   *)
(* the cap.                                                                *)
(***************************************************************************)
\* Plies played from each starting position.
MaxPlyQuiescenceChase == 3

MaxPlyQuiescenceEdge == 1

MaxPlyQuiescenceFront == 1

QuiescenceScenarios == {3, 5, 6}

QuiescenceMaxPly(n) ==
  CASE n = 3 -> MaxPlyQuiescenceChase
    [] n = 5 -> MaxPlyQuiescenceEdge
    [] n = 6 -> MaxPlyQuiescenceFront

QuiescenceFocus(n) ==
  CASE n = 3 -> Focus(3)
    [] n = 5 -> SearchFocus(5)
    [] n = 6 -> { Pos(1, 5), Pos(1, 4), Pos(2, 5), Pos(2, 4) }

\* The windows of a call: the full one, one that lies below the stand-pat
\* evaluation, one that lies above it and one that holds it, a pawn away.
QuiescenceWindows(standPat) ==
  { [alpha |-> -Infinity, beta |-> Infinity],
    [alpha |-> -Infinity, beta |-> standPat - PIECE_VALUES["pawn"] * 10],
    [alpha |-> standPat + PIECE_VALUES["pawn"] * 10, beta |-> Infinity],
    [alpha |-> standPat - PIECE_VALUES["pawn"] * 10,
     beta |-> standPat + PIECE_VALUES["pawn"] * 10] }

QuiescenceDepths == {0, MAX_QUIESCENCE_DEPTH - 1, MAX_QUIESCENCE_DEPTH}

InitQuiescence ==
  /\ InitApp
  /\ InitHeap
  /\ scenario \in QuiescenceScenarios
  /\ state = ScenarioState(scenario)

QuiescenceMove(from, to, promote) ==
  /\ state.result.type = "ongoing"
  /\ state.moveCount < QuiescenceMaxPly(scenario)
  /\ getPieceAt(state.board, from) # Null
  /\ getPieceAt(state.board, from).owner = state.currentPlayer
  /\ BuildMoveAction(state, from, to, promote) \in
       Range(getLegalMovesForPiece(state.board, from, state.currentPlayer))
  /\ state' = executeMoveWithPromotion(state, from, to, promote)
  /\ quiesced' = NoQuiescence
  /\ UNCHANGED <<appVars, scenario, heapVars, searchRuns, thought>>

\* What a call leaves on record: its arguments, the stand-pat evaluation of
\* the state, how many capturing moves the side to move has, and what the
\* call returned.
Quiesced(window, maximizing, depth, standPat, captures, result) ==
  [depth |-> depth, alpha |-> window.alpha, beta |-> window.beta,
   maximizing |-> maximizing, standPat |-> standPat, captures |-> captures,
   score |-> result.score, nodes |-> result.nodes, plies |-> result.plies]

CallQuiescence(window, depth) ==
  /\ state.result.type = "ongoing"
  /\ quiesced = NoQuiescence
  /\ quiesced' =
       Quiesced(window, state.currentPlayer = "sente", depth,
                quickEvaluate(state),
                Len(SelectSeq(getAllLegalMoves(state), IsCapture)),
                quiescenceSearch(state, window.alpha, window.beta,
                                 state.currentPlayer = "sente", 0, depth))
  /\ UNCHANGED <<appVars, scenario, state, heapVars, searchRuns, thought>>

NextQuiescence ==
  \/ \E from \in QuiescenceFocus(scenario), to \in QuiescenceFocus(scenario),
        promote \in BOOLEAN :
       QuiescenceMove(from, to, promote)
  \/ \E window \in QuiescenceWindows(quickEvaluate(state)),
        depth \in QuiescenceDepths :
       CallQuiescence(window, depth)

SpecQuiescence == InitQuiescence /\ [][NextQuiescence]_vars

\* The moves the loop of quiescenceSearch recurses through are relocations
\* onto a square that holds a piece of the other side.
OnlyCaptures ==
  \A m \in Range(SelectSeq(getAllLegalMoves(state), IsCapture)) :
    /\ m.type = "move"
    /\ getPieceAt(state.board, m.to) # Null
    /\ getPieceAt(state.board, m.to).owner # state.currentPlayer
    /\ getPieceAt(state.board, m.to).type = m.captured

\* A call never goes deeper than the cap below the call of depth 0.
WithinCap == quiesced.depth + quiesced.plies <= MAX_QUIESCENCE_DEPTH

\* The stand-pat evaluation as a fail-hard search returns it: the bound the
\* evaluation has met, or the evaluation.
StandPatInWindow ==
  IF quiesced.maximizing /\ quiesced.standPat >= quiesced.beta
    THEN quiesced.beta
  ELSE IF ~quiesced.maximizing /\ quiesced.standPat <= quiesced.alpha
    THEN quiesced.alpha
  ELSE quiesced.standPat

\* C22 as stated: quiescenceSearch recurses through capturing relocations
\* only, never deeper than six plies below the call of depth 0, and returns
\* the stand-pat evaluation of the state when the cap is reached or the side
\* to move has no legal capture.
C22_QuiescenceStandPat ==
  quiesced # NoQuiescence =>
    /\ OnlyCaptures
    /\ WithinCap
    /\ (quiesced.depth >= MAX_QUIESCENCE_DEPTH \/ quiesced.captures = 0) =>
         quiesced.score = quiesced.standPat

\* C22 amended: as above, but below the cap a call whose stand-pat
\* evaluation has met the bound of the window (beta for the maximizing
\* side, alpha for the minimizing side) returns that bound; without a legal
\* capture it returns the stand-pat evaluation otherwise.
C22_QuiescenceStandPatInWindow ==
  quiesced # NoQuiescence =>
    /\ OnlyCaptures
    /\ WithinCap
    /\ quiesced.depth >= MAX_QUIESCENCE_DEPTH =>
         quiesced.score = quiesced.standPat /\ quiesced.plies = 0
    /\ (quiesced.depth < MAX_QUIESCENCE_DEPTH
        /\ (quiesced.captures = 0 \/ StandPatInWindow # quiesced.standPat)) =>
         quiesced.score = StandPatInWindow /\ quiesced.plies = 0

\* A call of depth 0 on the full window whose captures run into the cap.
C22_Witness ==
  /\ quiesced # NoQuiescence
  /\ quiesced.depth = 0
  /\ quiesced.alpha = -Infinity /\ quiesced.beta = Infinity
  /\ quiesced.captures > 1
  /\ quiesced.plies = MAX_QUIESCENCE_DEPTH


\* C23.  The squares getRawMoves has to return, said without the loops: a
\* square k steps from the origin along a pattern of the piece kind (one
\* step for a step pattern), the direction negated for gote, on the board,
\* not holding a piece of the owner, every square before it on the way
\* being on the board and empty.
BoardSquares == { Pos(col, row) : col \in 1..9, row \in 1..9 }

OwnerSign(owner) == IF owner = "gote" THEN -1 ELSE 1

Along(from, pattern, owner, k) ==
  [col |-> from.col + k * OwnerSign(owner) * pattern.direction.col,
   row |-> from.row + k * OwnerSign(owner) * pattern.direction.row]

Reach(pattern) == IF pattern.type = "step" THEN 1 ELSE 8

Reached(board, from, pattern, owner) ==
  { k \in 1..Reach(pattern) :
      /\ Along(from, pattern, owner, k) \in BoardSquares
      /\ getPieceAt(board, Along(from, pattern, owner, k)).owner # owner
      /\ \A j \in 1..(k - 1) :
           getPieceAt(board, Along(from, pattern, owner, j)) = Null }

ExpectedRawMoves(board, from, pieceType, owner) ==
  UNION { { Along(from, pattern, owner, k) :
            k \in Reached(board, from, pattern, owner) } :
          pattern \in Range(PIECE_MOVES[pieceType]) }

\* The origins a board is asked about: the corners, the centre and the
\* middle of each edge, and the squares the scenario plays on.
RawOrigins ==
  { Pos(col, row) : col \in {1, 5, 9}, row \in {1, 5, 9} } \cup Focus(scenario)

\* C23: for the board of every state and every origin asked about, piece
\* kind and owner, getRawMoves returns exactly the squares on the board that
\* a pattern of the kind reaches (negated for gote) without passing an
\* occupied square and that do not hold the owner's own piece; it never
\* returns a square twice.
C23_RawMoves ==
  \A from \in RawOrigins, pieceType \in DOMAIN PIECE_MOVES,
     owner \in Players :
    /\ Range(getRawMoves(state.board, from, pieceType, owner))
         = ExpectedRawMoves(state.board, from, pieceType, owner)
    /\ Cardinality(Range(getRawMoves(state.board, from, pieceType, owner)))
         = Len(getRawMoves(state.board, from, pieceType, owner))

\* A sliding piece of sente that can take a piece of gote's with squares on
\* the board behind it that the slide does not reach.
C23_Witness ==
  \E from \in RawOrigins :
    /\ getPieceAt(state.board, from) # Null
    /\ getPieceAt(state.board, from).owner = "sente"
    /\ getPieceAt(state.board, from).type \in {"rook", "bishop", "lance"}
    /\ \E to \in Range(getRawMoves(state.board, from,
                                   getPieceAt(state.board, from).type,
                                   "sente")) :
         /\ getPieceAt(state.board, to) # Null
         /\ to.row < from.row
         /\ to.row > 1
         /\ \A beyond \in Range(getRawMoves(state.board, from,
                                            getPieceAt(state.board, from).type,
                                            "sente")) :
              beyond.row >= to.row


\* C24.  The pieces of a base kind: those on the board, promoted or not, and
\* those in the two hands.
InitialCount ==
  [pawn |-> 18, lance |-> 4, knight |-> 4, silver |-> 4, gold |-> 4,
   bishop |-> 2, rook |-> 2]

OnBoard(board, kind) ==
  Cardinality({ i \in Indices :
                  unpromotePiece(board[RowOf(i)][ColOf(i)].type) = kind })

Kings(board, owner) ==
  Cardinality({ i \in Indices :
                  /\ board[RowOf(i)][ColOf(i)].type = "king"
                  /\ board[RowOf(i)][ColOf(i)].owner = owner })

Conserved(s) ==
  /\ \A kind \in DOMAIN InitialCount :
       OnBoard(s.board, kind) + s.hands["sente"][kind] + s.hands["gote"][kind]
         = InitialCount[kind]
  /\ \A owner \in Players :
       /\ Kings(s.board, owner) = 1
       /\ \A kind \in DOMAIN InitialCount : s.hands[owner][kind] >= 0

\* The hands after the move that led from s to t: a relocation onto a piece
\* gives the mover one more of its unpromoted kind, a drop takes the
\* dropped piece from the mover's hand, and nothing else changes.
LastMoveOf(t) == t.moveHistory[Len(t.moveHistory)]

HandsFollow(s, t) ==
  t.hands =
    IF LastMoveOf(t).type = "drop"
      THEN [s.hands EXCEPT ![s.currentPlayer][LastMoveOf(t).piece] = @ - 1]
    ELSE IF getPieceAt(s.board, LastMoveOf(t).to) = Null
      THEN s.hands
    ELSE [s.hands EXCEPT
            ![s.currentPlayer]
             [unpromotePiece(getPieceAt(s.board, LastMoveOf(t).to).type)] =
              @ + 1]

\* C24: in every state reached by applied relocations and drops the pieces
\* of each base kind on the board and in the hands number what the initial
\* position has, each owner has one king on the board, no hand count is
\* negative, and each step changes the hands by the captured piece, as its
\* unpromoted kind, or by the dropped piece only.
C24_PiecesConserved ==
  /\ [](Conserved(state))
  /\ [][HandsFollow(state, state')]_state

\* A promoted piece has just been taken and is in the captor's hand as its
\* unpromoted kind.
C24_Witness ==
  /\ Len(state.moveHistory) >= 1
  /\ LastMoveOf(state).type = "move"
  /\ LastMoveOf(state).captured \in DOMAIN UNPROMOTE_MAP
  /\ state.hands[Opponent(state.currentPlayer)]
                [UNPROMOTE_MAP[LastMoveOf(state).captured]] >= 1



\* C27: when checkGameResult answers 'ongoing' for a state, the side to
\* move has a legal move, and so has every state whose stored result is
\* 'ongoing'.
C27_OngoingHasLegalMove ==
  (checkGameResult(state).type = "ongoing" \/ state.result.type = "ongoing")
    => Len(getAllLegalMoves(state)) > 0

\* An ongoing game whose side to move is in check and has an escape left.
C27_Witness ==
  /\ Len(state.moveHistory) >= 1
  /\ checkGameResult(state).type = "ongoing"
  /\ state.result.type = "ongoing"
  /\ isInCheck(state.board, state.currentPlayer)
  /\ Len(getAllLegalMoves(state)) \in 1..2


\* No piece of the player has a legal relocation.
NoLegalRelocation(board, player) ==
  \A i \in Indices :
    (board[RowOf(i)][ColOf(i)] # Null
     /\ board[RowOf(i)][ColOf(i)].owner = player) =>
      getLegalMovesForPiece(board, indexToPosition(RowOf(i), ColOf(i)),
                            player) = <<>>

\* isLegalMove answers the same for a relocation with promote=true and with
\* promote=false, whatever the piece and the squares.
PromoteFlagIrrelevant(board, player) ==
  \A i \in Indices :
    (board[RowOf(i)][ColOf(i)] # Null
     /\ board[RowOf(i)][ColOf(i)].owner = player) =>
      \A to \in Range(getRawMoves(board, indexToPosition(RowOf(i), ColOf(i)),
                                  board[RowOf(i)][ColOf(i)].type, player)) :
        isLegalMove(board,
                    MoveAction(indexToPosition(RowOf(i), ColOf(i)), to,
                               board[RowOf(i)][ColOf(i)].type, Undefined,
                               TRUE), player)
          = isLegalMove(board,
                        MoveAction(indexToPosition(RowOf(i), ColOf(i)), to,
                                   board[RowOf(i)][ColOf(i)].type, Undefined,
                                   FALSE), player)

\* C28: for the board of every state and either player, isCheckmate called
\* without a hand is true exactly when the player is in check and
\* getLegalMovesForPiece is empty for every piece of the player; whether a
\* relocation leaves the mover's king attacked does not depend on the
\* promote flag.
C28_CheckmateScanAgrees ==
  \A player \in Players :
    /\ isCheckmate(state.board, player, NoHand)
         <=> (isInCheck(state.board, player)
              /\ NoLegalRelocation(state.board, player))
    /\ PromoteFlagIrrelevant(state.board, player)

\* A check has just been given that no relocation answers: both sides of
\* the equivalence are true of the side to move.
C28_Witness ==
  /\ Len(state.moveHistory) >= 1
  /\ isCheckmate(state.board, state.currentPlayer, NoHand)
  /\ NoLegalRelocation(state.board, state.currentPlayer)


\* C29.  What gameStateToSfen has to tell apart: the kind and the owner of
\* the piece on every square, the hands and the side to move.
SamePosition(s, t) ==
  /\ \A i \in Indices :
       /\ s.board[RowOf(i)][ColOf(i)].type = t.board[RowOf(i)][ColOf(i)].type
       /\ s.board[RowOf(i)][ColOf(i)].owner
            = t.board[RowOf(i)][ColOf(i)].owner
  /\ s.hands = t.hands
  /\ s.currentPlayer = t.currentPlayer

\* What a square can hold.
SquareContents ==
  {Null} \cup { [type |-> type, owner |-> owner,
                 isPromoted |-> isPromotedPiece(type)] :
                type \in DOMAIN pieceMap, owner \in Players }

\* The states next to s: one square of those asked about holds something
\* else, one hand holds one piece more or one piece less, or the other side
\* is to move.
SfenVariants(s) ==
  { [s EXCEPT !.board = WithSquares(s.board, {[pos |-> pos, piece |-> piece]})] :
      pos \in RawOrigins, piece \in SquareContents }
  \cup { [s EXCEPT !.hands[owner][kind] = @ + 1] :
           owner \in Players, kind \in Range(HandPieceTypes) }
  \cup { [s EXCEPT !.hands[owner][kind] = MathMax(0, @ - 1)] :
           owner \in Players, kind \in Range(HandPieceTypes) }
  \cup { [s EXCEPT !.currentPlayer = Opponent(s.currentPlayer)] }

\* C29: a state, the states next to it and the starting positions never
\* share the string of gameStateToSfen unless they agree in the kind and
\* owner of the piece on every square, in both hands and in the side to
\* move.
C29_SfenInjective ==
  \A t \in SfenVariants(state) \cup { ScenarioState(n) : n \in Scenarios } :
    gameStateToSfen(t) = gameStateToSfen(state) => SamePosition(t, state)

\* The position the game started from has come back after four plies or
\* more, and the string is that of the starting position again.
C29_Witness ==
  /\ Len(state.moveHistory) >= 4
  /\ gameStateToSfen(state) = gameStateToSfen(ScenarioState(scenario))
  /\ \E t \in SfenVariants(state) : ~SamePosition(t, state)

(***************************************************************************)
(* Further properties of App (checked under Spec)                           *)
(***************************************************************************)
\* The snapshots of the game on screen, oldest first.
Timeline == history.past \o <<history.present>>

\* Snapshot t is snapshot s or follows it by one move.
Follows(s, t) ==
  /\ Len(t.moveHistory) <= Len(s.moveHistory) + 1
  /\ Len(t.moveHistory) >= Len(s.moveHistory)
  /\ SubSeq(t.moveHistory, 1, Len(s.moveHistory)) = s.moveHistory

\* C25: a move computed by executeAiMove for a game that has since been
\* reset or replaced is never applied: the game on screen starts with the
\* initial state of the game last started and each of its snapshots follows
\* the one before by a move made in that game.
C25_StaleAiMoveNotApplied ==
  /\ Timeline[1] = createInitialState
  /\ \A i \in 1..(Len(Timeline) - 1) : Follows(Timeline[i], Timeline[i + 1])


\* C26: in the state on screen the player who is not to move is not in
\* check, so no legal move takes a king and applying a legal move never
\* raises toHandPieceType's 'King cannot be captured'.
C26_WaitingSideNotInCheck ==
  /\ ~isInCheck(gameState.board, Opponent(gameState.currentPlayer))
  /\ \A m \in Range(getAllLegalMoves(gameState)) :
       m.type = "move" =>
         /\ m.captured # "king"
         /\ ~ExecuteMoveThrows(gameState, m.from, m.to)


\* C30.  The snapshots of a history in order, whatever the cursor.
Snapshots(h) == h.past \o <<h.present>> \o h.future

\* C30: on the history of every state, undo, undoTwice and redo leave the
\* sequence past ++ [present] ++ future as it is and move the cursor by
\* one, two and one; undo then redo, and undoTwice then two redos, give the
\* history back; undo does nothing on an empty past, undoTwice nothing on a
\* past of fewer than two snapshots, redo nothing on an empty future.
C30_HistoryCursorOnly ==
  /\ Snapshots(undo(history)) = Snapshots(history)
  /\ Snapshots(undoTwice(history)) = Snapshots(history)
  /\ Snapshots(redo(history)) = Snapshots(history)
  /\ IF Len(history.past) = 0
       THEN undo(history) = history
       ELSE /\ Len(undo(history).past) = Len(history.past) - 1
            /\ redo(undo(history)) = history
  /\ IF Len(history.past) < 2
       THEN undoTwice(history) = history
       ELSE /\ Len(undoTwice(history).past) = Len(history.past) - 2
            /\ redo(redo(undoTwice(history))) = history
  /\ IF Len(history.future) = 0
       THEN redo(history) = history
       ELSE /\ Len(redo(history).past) = Len(history.past) + 1
            /\ undo(redo(history)) = history

\* A history with snapshots on either side of the present, after a take-back
\* of two moves.
C30_Witness ==
  /\ Len(history.past) >= 1
  /\ Len(history.future) >= 2
  /\ history.present # history.past[Len(history.past)]
  /\ history.present # history.future[1]

=============================================================================
